---- MODULE Spec2Model ----
(***************************************************************************)
(* Request understanding and dialogue management of the asset assistant:   *)
(* the rule-based classifier with its optional model suggestion            *)
(* (app/classifier/layer.py), the slot extractors (app/tools.py), the      *)
(* intent parser (app/agents/intent_parser.py), the supervisor             *)
(* (app/agents/supervisor.py) and the workflow's supervisor node           *)
(* (app/graph/workflow.py, app/api/main.py).                               *)
(*                                                                         *)
(* A text is the sequence of its lower-cased words.  Python's substring    *)
(* tests ("keyword in lowered") become tests on words through the table    *)
(* SubstringPairs, which lists every pair of distinct vocabulary words     *)
(* one of which contains the other.  Patterns none of whose words are in   *)
(* the vocabulary (street addresses, "this year", "ytd", ...) cannot       *)
(* match a text of the model and are left out.                             *)
(***************************************************************************)
EXTENDS Integers, Sequences, FiniteSets, TLC

VARIABLES
    ctx,        \* the session's QueryContext
    decision,   \* the SupervisorDecision of the last analyze call
    last,       \* what the last step was and which path of analyze handled it
    dialogue,   \* progress of a period dialogue answered in order
    weak_dataset, \* whether the dataset lets a shared word alone reach min_confidence
    cls         \* classifier run: its input, the suggestion and the result

vars == <<ctx, decision, last, dialogue, weak_dataset, cls>>

None == "none"

\* ------------------------------------------------------------------------
\* Vocabulary
\* ------------------------------------------------------------------------

YearWords == {"2024", "2025"}
QuarterWords == {"q1", "q2"}
MonthWords == {"january", "february", "march"}
BuildingNumbers == {"180", "140", "999"}

\* <<w, k>>: vocabulary word w contains keyword k as a proper substring.
SubstringPairs ==
    { <<"yearly", "year">>, <<"quarterly", "quarter">>, <<"monthly", "month">>,
      <<"expenses", "expense">>, <<"tenants", "tenant">> }

Contains(w, k) == w = k \/ <<w, k>> \in SubstringPairs

\* "k in lowered" for a one-word keyword k.
HasKeyword(t, k) == \E i \in 1..Len(t) : Contains(t[i], k)

\* re.search(r"\bk\b", lowered) for a one-word k.
HasWord(t, k) == \E i \in 1..Len(t) : t[i] = k

\* "p in lowered" for a phrase p of several words.
HasPhrase(t, p) ==
    \E i \in 1..(Len(t) - Len(p) + 1) : SubSeq(t, i, i + Len(p) - 1) = p

HasAnyKeyword(t, ks) == \E k \in ks : HasKeyword(t, k)
HasAnyWord(t, ks) == \E k \in ks : HasWord(t, k)

\* re.search(r"\d", w)
HasDigit(w) == w \in YearWords \cup QuarterWords \cup BuildingNumbers

\* list(dict.fromkeys(s)): first occurrences, in order.
RECURSIVE Dedupe(_)
Dedupe(s) ==
    IF s = <<>> THEN <<>>
    ELSE LET front == Dedupe(SubSeq(s, 1, Len(s) - 1))
             x == s[Len(s)]
         IN IF \E i \in 1..Len(front) : front[i] = x THEN front ELSE Append(front, x)

InSeq(x, s) == \E i \in 1..Len(s) : s[i] = x

\* s[:n]
Take(s, n) == IF Len(s) <= n THEN s ELSE SubSeq(s, 1, n)

\* [x for x in s if x in keep]
RECURSIVE SelectIn(_, _)
SelectIn(s, keep) ==
    IF s = <<>> THEN <<>>
    ELSE IF Head(s) \in keep THEN <<Head(s)>> \o SelectIn(Tail(s), keep)
         ELSE SelectIn(Tail(s), keep)

\* ------------------------------------------------------------------------
\* Period labels.  A canonical label "2025", "2025-Q1" or "2025-M03" is the
\* tuple of its parts: <<"2025">>, <<"2025", "Q1">>, <<"2025", "M03">>.
\* ------------------------------------------------------------------------

MonthCode(w) ==
    CASE w = "january" -> "M01"
      [] w = "february" -> "M02"
      [] w = "march" -> "M03"

QuarterCode(w) ==
    CASE w = "q1" -> "Q1"
      [] w = "q2" -> "Q2"

MonthCodes == {"M01", "M02", "M03"}
QuarterCodes == {"Q1", "Q2"}

\* Matches of a two-word pattern (first word in A, second in B), scanned
\* left to right without overlap as re.finditer does; each match is the
\* index of its first word.
RECURSIVE PairMatches(_, _, _, _)
PairMatches(t, i, A, B) ==
    IF i >= Len(t) THEN <<>>
    ELSE IF t[i] \in A /\ t[i + 1] \in B
         THEN <<i>> \o PairMatches(t, i + 2, A, B)
         ELSE PairMatches(t, i + 1, A, B)

\* _QUARTER_REGEX: "<year> q#" or "q# <year>", scanned without overlap.
RECURSIVE QuarterMatches(_, _)
QuarterMatches(t, i) ==
    IF i >= Len(t) THEN <<>>
    ELSE IF t[i] \in YearWords /\ t[i + 1] \in QuarterWords
         THEN << <<t[i], QuarterCode(t[i + 1])>> >> \o QuarterMatches(t, i + 2)
         ELSE IF t[i] \in QuarterWords /\ t[i + 1] \in YearWords
              THEN << <<t[i + 1], QuarterCode(t[i])>> >> \o QuarterMatches(t, i + 2)
              ELSE QuarterMatches(t, i + 1)

MonthYearLabels(t) ==
    LET m == PairMatches(t, 1, MonthWords, YearWords)
    IN [k \in 1..Len(m) |-> <<t[m[k] + 1], MonthCode(t[m[k]])>>]

YearMonthLabels(t) ==
    LET m == PairMatches(t, 1, YearWords, MonthWords)
    IN [k \in 1..Len(m) |-> <<t[m[k]], MonthCode(t[m[k] + 1])>>]

YearLabels(t) ==
    LET ys == SelectIn(t, YearWords)
    IN [k \in 1..Len(ys) |-> <<ys[k]>>]

_extract_periods(t) ==
    Dedupe(MonthYearLabels(t) \o YearMonthLabels(t) \o QuarterMatches(t, 1) \o YearLabels(t))

\* ------------------------------------------------------------------------
\* Classifier (app/classifier/layer.py)
\* ------------------------------------------------------------------------

_REQUEST_TYPE_VALUES == {"pnl", "asset_details", "price_comparison", "general", "unsupported"}
_P_AND_L_KEYWORDS == {"p&l", "pnl", "noi", "revenue", "expense", "expenses", "income"}
_PRICE_KEYWORDS == {"price", "worth", "value", "valuation"}
_ASSET_DETAIL_KEYWORDS == {"list", "show", "tenants", "tenant", "property"}
_COMPARISON_WORDS == {"compare", "versus", "vs", "difference", "between"}
_ADDRESS_SEPARATORS == {"versus", "vs", "and", "between", "with", "against", "to"}
_GENERAL_QUESTION_WORDS == {"definition", "explain"}
_GENERAL_QUESTION_PHRASES == {<<"what", "is">>, <<"what", "does">>, <<"meaning", "of">>}

DigitWords == BuildingNumbers \cup YearWords

\* _GENERAL_QUESTION_PATTERN.search(lowered)
GeneralQuestion(t) ==
    HasAnyWord(t, _GENERAL_QUESTION_WORDS) \/ \E p \in _GENERAL_QUESTION_PHRASES : HasPhrase(t, p)

\* re.findall(r"(<head>\s+\d+)", text): the matched phrases, in order.
PatternTerms(t, head) ==
    LET m == PairMatches(t, 1, {head}, DigitWords)
    IN [k \in 1..Len(m) |-> <<t[m[k]], t[m[k] + 1]>>]

\* separators.split(text), empty pieces dropped.
RECURSIVE SplitPieces(_, _, _)
SplitPieces(t, cur, seps) ==
    IF t = <<>> THEN (IF cur = <<>> THEN <<>> ELSE <<cur>>)
    ELSE IF Head(t) \in seps
         THEN (IF cur = <<>> THEN <<>> ELSE <<cur>>) \o SplitPieces(Tail(t), <<>>, seps)
         ELSE SplitPieces(Tail(t), Append(cur, Head(t)), seps)

AddressKeywordWords == {"building", "tenant", "suite", "unit", "property"}

\* The pieces that carry a digit or an address keyword.
RECURSIVE AddressPieces(_)
AddressPieces(ps) ==
    IF ps = <<>> THEN <<>>
    ELSE LET p == Head(ps)
             keep == \E i \in 1..Len(p) : HasDigit(p[i]) \/ p[i] \in AddressKeywordWords
         IN (IF keep THEN <<p>> ELSE <<>>) \o AddressPieces(Tail(ps))

_extract_addresses(t) ==
    Take(Dedupe(PatternTerms(t, "building") \o PatternTerms(t, "tenant")
                \o AddressPieces(SplitPieces(t, <<>>, _ADDRESS_SEPARATORS))), 4)

ClassificationResult(rt, addrs, period, cmp, missing, needed) ==
    [request_type |-> rt, addresses |-> addrs, period |-> period,
     comparison_periods |-> cmp, missing_fields |-> missing,
     clarifications_needed |-> needed]

\* The decisions of _baseline_classification once the addresses and the
\* periods are extracted: the baseline result and the hints.
BaselineFrom(lowered, addresses, periods) ==
    LET has_compare_word == HasAnyKeyword(lowered, _COMPARISON_WORDS)
        comparison_periods ==
            IF has_compare_word /\ Len(periods) >= 2 THEN Take(periods, 2) ELSE <<>>
        period ==
            IF comparison_periods # <<>> THEN <<>>
            ELSE IF periods # <<>> THEN periods[1] ELSE <<>>
        has_pnl == HasAnyKeyword(lowered, _P_AND_L_KEYWORDS)
        has_price == HasAnyKeyword(lowered, _PRICE_KEYWORDS)
        has_property == addresses # <<>> \/ PatternTerms(lowered, "tenant") # <<>>
        has_period == period # <<>> \/ Len(comparison_periods) = 2
        general_question == GeneralQuestion(lowered)
        has_asset_detail_term ==
            HasAnyKeyword(lowered, _ASSET_DETAIL_KEYWORDS)
            \/ HasPhrase(lowered, <<"tell", "me", "about">>)
            \/ HasPhrase(lowered, <<"which", "properties">>)
        general_only == general_question /\ ~has_property /\ ~has_period
        request_type ==
            IF general_only THEN "general"
            ELSE IF has_pnl THEN "pnl"
            ELSE IF has_compare_word /\ Len(addresses) >= 2 THEN "price_comparison"
            ELSE IF has_price THEN "price_comparison"
            ELSE IF has_asset_detail_term /\ has_property THEN "asset_details"
            ELSE "general"
    IN [result |-> ClassificationResult(request_type, addresses, period,
                                        comparison_periods, <<>>, FALSE),
        hints |-> [has_pnl |-> has_pnl, has_property |-> has_property,
                   has_period |-> has_period, has_compare_word |-> has_compare_word]]

\* _baseline_classification: the pair (baseline, hints).
_baseline_classification(t) ==
    BaselineFrom(t, _extract_addresses(t), _extract_periods(t))

BaselineHints(t) == _baseline_classification(t).hints

\* None: what _invoke_llm returns when the model is disabled, the call failed
\* or the payload is no JSON object.
NoSuggestion == [request_type |-> None]

\* A JSON value of the external model's payload, by its Python type: a key
\* that is absent, a list of items, a non-zero number, or a string (items are
\* then its characters, which is what iterating a string yields).
Raw(kind, items) == [kind |-> kind, items |-> items]

Absent == Raw("absent", <<>>)

\* A JSON document that is not an object (a list, a number, a string).
NotAnObject == [kind |-> "not_object"]

\* _normalize_period_string: a bare year, else the first month-year,
\* year-month, quarter or year found in the string, else None.
NormalizedFrom(found) == IF found = <<>> THEN <<>> ELSE found[1]

_normalize_period_string(value) ==
    NormalizedFrom(MonthYearLabels(value) \o YearMonthLabels(value)
                   \o QuarterMatches(value, 1) \o YearLabels(value))

\* `[str(value).strip() for value in raw if isinstance(value, (str, int, float))]`
\* followed by the filter on empty strings; None until the iteration raises.
CoercedList(raw) == IF raw.kind \in {"list", "string"} THEN raw.items ELSE <<>>

\* Iterating a number raises TypeError; nothing in _result_from_payload or in
\* _invoke_llm after json.loads catches it.
PayloadRaises(payload) ==
    /\ payload.kind = "object"
    /\ \/ payload.addresses.kind = "number"
       \/ payload.missing_fields.kind = "number"

NormalizedPeriods(items) ==
    Take(Dedupe(SelectSeq([i \in 1..Len(items) |-> _normalize_period_string(items[i])],
                          LAMBDA label : label # <<>>)), 2)

_result_from_payload(payload) ==
    IF payload.kind # "object" THEN NoSuggestion
    ELSE ClassificationResult(
             IF payload.request_type \in _REQUEST_TYPE_VALUES
             THEN payload.request_type ELSE "general",
             CoercedList(payload.addresses),
             IF payload.period.kind = "string"
             THEN _normalize_period_string(payload.period.items) ELSE <<>>,
             IF payload.comparison_periods.kind = "list"
             THEN NormalizedPeriods(payload.comparison_periods.items) ELSE <<>>,
             CoercedList(payload.missing_fields),
             payload.clarifications_needed)

\* _invoke_llm on the outcome of the call: no model, a failed call or a body
\* that is not JSON give None; a JSON body goes through _result_from_payload.
_invoke_llm(response) ==
    IF response.kind = "json" THEN _result_from_payload(response.payload)
    ELSE NoSuggestion

\* A merge without the hard routing rule.
_apply_overrides_soft(primary, baseline, hints) ==
    LET rt == IF primary.request_type \in _REQUEST_TYPE_VALUES
              THEN primary.request_type ELSE baseline.request_type
        cmp == IF Len(primary.comparison_periods) # 2 /\ Len(baseline.comparison_periods) = 2
               THEN baseline.comparison_periods ELSE primary.comparison_periods
    IN ClassificationResult(rt,
           IF primary.addresses # <<>> THEN primary.addresses ELSE baseline.addresses,
           IF Len(cmp) = 2 THEN <<>>
           ELSE IF primary.period # <<>> THEN primary.period ELSE baseline.period,
           cmp, primary.missing_fields, primary.clarifications_needed)

_apply_overrides(primary, baseline, hints) ==
    LET r0 == ClassificationResult(
                  IF primary.request_type # "" THEN primary.request_type
                  ELSE baseline.request_type,
                  IF primary.addresses # <<>> THEN primary.addresses ELSE baseline.addresses,
                  IF primary.period # <<>> THEN primary.period ELSE baseline.period,
                  IF primary.comparison_periods # <<>> THEN primary.comparison_periods
                  ELSE baseline.comparison_periods,
                  primary.missing_fields,
                  primary.clarifications_needed)
        rt1 == IF r0.request_type \notin _REQUEST_TYPE_VALUES
               THEN baseline.request_type ELSE r0.request_type
        addrs == IF r0.addresses = <<>> /\ baseline.addresses # <<>>
                 THEN baseline.addresses ELSE r0.addresses
        cmp == IF Len(r0.comparison_periods) # 2 /\ Len(baseline.comparison_periods) = 2
               THEN baseline.comparison_periods ELSE r0.comparison_periods
        period == IF Len(cmp) = 2 THEN <<>>
                  ELSE IF r0.period = <<>> /\ baseline.period # <<>> THEN baseline.period
                  ELSE r0.period
        hard_rule_applies ==
            hints.has_pnl /\ hints.has_property /\ (hints.has_period \/ Len(cmp) = 2)
        rt2 == IF hard_rule_applies THEN "pnl" ELSE rt1
        rt3 == IF rt2 = "" THEN baseline.request_type ELSE rt2
        rt4 == IF rt3 \notin _REQUEST_TYPE_VALUES THEN "general" ELSE rt3
        missing == Dedupe(r0.missing_fields \o baseline.missing_fields)
    IN ClassificationResult(rt4, addrs, period, cmp, missing,
                            r0.clarifications_needed \/ missing # <<>>)

_compute_missing_fields(result) ==
    LET missing ==
            IF result.request_type = "pnl"
            THEN (IF result.addresses = <<>> THEN <<"property">> ELSE <<>>)
                 \o (IF result.period = <<>> /\ Len(result.comparison_periods) # 2
                     THEN <<"period">> ELSE <<>>)
            ELSE <<>>
        fields == Dedupe(IF missing # <<>> THEN missing ELSE result.missing_fields)
    IN [result EXCEPT !.missing_fields = fields, !.clarifications_needed = fields # <<>>]

\* Lines 213-216 of classify: the merge of the result in use with the
\* baseline, then the missing fields.
ClassifyFrom(user_input, llm_result, baseline) ==
    _compute_missing_fields(
        _apply_overrides(IF llm_result # NoSuggestion /\ user_input # <<>>
                         THEN llm_result ELSE baseline.result,
                         baseline.result, baseline.hints))

\* ClassificationLayer.classify, given what _invoke_llm returned.
classify(user_input, llm_result) ==
    ClassifyFrom(user_input, llm_result, _baseline_classification(user_input))


\* ------------------------------------------------------------------------
\* Dataset and slot extractors (app/tools.py, app/knowledge/property_memory.py)
\* ------------------------------------------------------------------------

\* The property records of the dataset, in catalog order: Building 180 (with
\* tenant Acme) and Building 140.  Building 999 is in no record.
Records ==
    << [address |-> <<"building", "180">>, tenant |-> <<"acme">>],
       [address |-> <<"building", "140">>, tenant |-> <<>>] >>

RecordIndexes == 1..Len(Records)
DatasetAddresses == {Records[i].address : i \in RecordIndexes}

\* tools._known_tenants(), sorted longest first.
KnownTenants == << <<"acme">> >>

\* Words of a record's document that set it apart from the other records,
\* and the words every document shares.
RecordOwnWords(r) == {r.address[2]} \cup {r.tenant[i] : i \in 1..Len(r.tenant)}
SharedDocumentWords == {"building", "tenant", "pnl"}

\* The year datetime.utcnow() reports.
NowYear == "2025"

\* datetime.utcnow() falls in the first quarter of NowYear: "last year" is the
\* year before, "last quarter" the fourth quarter of the year before.
LastYear == "2024"
NowQuarter == "Q1"
LastQuarter == <<LastYear, "Q4">>

\* The month names in the order _MONTH_MAP lists them.
_MONTH_MAP == <<"january", "february", "march">>

PeriodInfo(label, level, year, quarter, month) ==
    [label |-> label, level |-> level, year |-> year, quarter |-> quarter, month |-> month]

NoPeriodInfo == PeriodInfo(<<>>, None, None, <<>>, <<>>)

FirstIn(t, S) == LET i == CHOOSE i \in 1..Len(t) : t[i] \in S /\ \A j \in 1..(i - 1) : t[j] \notin S
                 IN t[i]

extract_period_hint(t) ==
    LET yq == PairMatches(t, 1, YearWords, QuarterWords)
        qy == PairMatches(t, 1, QuarterWords, YearWords)
        months == {m \in MonthWords : HasKeyword(t, m)}
    IN IF HasPhrase(t, <<"this", "year">>) \/ HasKeyword(t, "ytd")
       THEN PeriodInfo(<<NowYear>>, "year", NowYear, <<>>, <<>>)
       ELSE IF HasPhrase(t, <<"last", "year">>)
       THEN PeriodInfo(<<LastYear>>, "year", LastYear, <<>>, <<>>)
       ELSE IF HasPhrase(t, <<"this", "quarter">>)
       THEN PeriodInfo(<<NowYear, NowQuarter>>, "quarter", NowYear, <<NowYear, NowQuarter>>, <<>>)
       ELSE IF HasPhrase(t, <<"last", "quarter">>)
       THEN PeriodInfo(LastQuarter, "quarter", LastQuarter[1], LastQuarter, <<>>)
       ELSE IF yq # <<>>
       THEN LET label == <<t[yq[1]], QuarterCode(t[yq[1] + 1])>>
            IN PeriodInfo(label, "quarter", label[1], label, <<>>)
       ELSE IF qy # <<>>
       THEN LET label == <<t[qy[1] + 1], QuarterCode(t[qy[1]])>>
            IN PeriodInfo(label, "quarter", label[1], label, <<>>)
       ELSE IF months # {}
       THEN LET name == FirstIn(_MONTH_MAP, months)
                year == IF HasAnyWord(t, YearWords) THEN FirstIn(t, YearWords) ELSE NowYear
                label == <<year, MonthCode(name)>>
            IN PeriodInfo(label, "month", year, <<>>, label)
       ELSE IF HasAnyWord(t, YearWords)
       THEN LET year == FirstIn(t, YearWords)
            IN PeriodInfo(<<year>>, "year", year, <<>>, <<>>)
       ELSE NoPeriodInfo

extract_tenant_names(t) ==
    Take(SelectIn(KnownTenants, {n \in {KnownTenants[i] : i \in 1..Len(KnownTenants)} : HasPhrase(t, n)}), 2)

\* tools._fuzzy_property_match: difflib's closest known property at cutoff
\* 0.75.  Of the model's texts only a bare "Building <n>" reaches the
\* cutoff against "Building <m>"; ties go to the greater string.
_fuzzy_property_match(t) ==
    IF Len(t) = 2 /\ t[1] = "building" /\ t[2] \in DigitWords
    THEN IF t \in DatasetAddresses THEN t ELSE <<"building", "180">>
    ELSE <<>>

KnownPropertiesIn(t) ==
    LET hit == {i \in RecordIndexes : HasPhrase(t, Records[i].address)}
    IN [k \in 1..Cardinality(hit) |->
           Records[CHOOSE i \in hit : Cardinality({j \in hit : j < i}) = k - 1].address]

\* tools.extract_addresses (the alias file is absent: no alias map).
AddressesFrom(literal, fuzzy, max_matches) ==
    IF Len(literal) >= max_matches THEN Take(literal, max_matches)
    ELSE IF fuzzy # <<>> THEN Dedupe(Append(literal, fuzzy))
    ELSE literal

extract_addresses(t, max_matches) ==
    AddressesFrom(Dedupe(KnownPropertiesIn(t) \o PatternTerms(t, "building")),
                  _fuzzy_property_match(t), max_matches)


\* A PropertyMatch: its address, its reason and whether it carries metadata.
PropertyMatch(address, reason, metadata) ==
    [address |-> address, property_name |-> address, reason |-> reason, metadata |-> metadata]

\* PropertyMemory.search: the records ranked by similarity to the query.  A
\* record that shares one of its own words with the query ranks first; one
\* that shares only words common to every document follows, and reaches
\* min_confidence only if the dataset makes it (weak).
search(q, top_k, weak) ==
    LET own == {i \in RecordIndexes : \E w \in RecordOwnWords(Records[i]) : HasWord(q, w)}
        shared == IF weak /\ HasAnyWord(q, SharedDocumentWords) THEN RecordIndexes \ own ELSE {}
        Rank(S) == [k \in 1..Cardinality(S) |->
                       Records[CHOOSE i \in S : Cardinality({j \in S : j < i}) = k - 1].address]
    IN Take(Rank(own) \o Rank(shared), top_k)

\* PropertyMemory._extract_candidate_terms: alias hits by position, then the
\* "building <n>" phrases.
AliasesOf(r) == {r.address} \cup (IF r.tenant = <<>> THEN {} ELSE {r.tenant})
AllAliases == UNION {AliasesOf(Records[i]) : i \in RecordIndexes}
FirstPosition(t, p) ==
    CHOOSE i \in 1..(Len(t) - Len(p) + 1) : SubSeq(t, i, i + Len(p) - 1) = p
                             /\ \A j \in 1..(i - 1) : SubSeq(t, j, j + Len(p) - 1) # p

_alias_hits(t) ==
    LET hit == {a \in AllAliases : HasPhrase(t, a)}
    IN [k \in 1..Cardinality(hit) |->
           CHOOSE a \in hit : Cardinality({b \in hit : FirstPosition(t, b) < FirstPosition(t, a)}) = k - 1]

_extract_candidate_terms(t) == Dedupe(_alias_hits(t) \o PatternTerms(t, "building"))

\* A per-candidate pass that keeps a match whatever addresses came before.
RECURSIVE CandidatePassKeeping(_, _, _, _)
CandidatePassKeeping(cands, matches, expected, weak) ==
    IF cands = <<>> \/ Len(matches) >= expected THEN matches
    ELSE LET ranked == search(Head(cands), 1, weak)
         IN IF ranked = <<>>
            THEN CandidatePassKeeping(Tail(cands), matches, expected, weak)
            ELSE CandidatePassKeeping(Tail(cands), Append(matches, ranked[1]), expected, weak)

\* The per-candidate pass of resolve_mentions.
RECURSIVE CandidatePass(_, _, _, _)
CandidatePass(cands, matches, expected, weak) ==
    IF cands = <<>> \/ Len(matches) >= expected THEN matches
    ELSE LET ranked == search(Head(cands), 1, weak)
         IN IF ranked = <<>> \/ InSeq(ranked[1], matches)
            THEN CandidatePass(Tail(cands), matches, expected, weak)
            ELSE CandidatePass(Tail(cands), Append(matches, ranked[1]), expected, weak)

\* The full-text backfill of resolve_mentions.
RECURSIVE Backfill(_, _, _)
Backfill(filler, matches, expected) ==
    IF filler = <<>> \/ Len(matches) >= expected THEN matches
    ELSE IF InSeq(Head(filler), matches) THEN Backfill(Tail(filler), matches, expected)
         ELSE Backfill(Tail(filler), Append(matches, Head(filler)), expected)

\* PropertyMemory.resolve_mentions: the matched addresses, in rank order.
MentionsBackfill(t, candidate_terms, first, expected, weak) ==
    IF candidate_terms # <<>> /\ Len(first) < expected
    THEN Backfill(search(t, expected - Len(first), weak), first, expected)
    ELSE first

MentionsFrom(t, candidate_terms, expected, weak) ==
    MentionsBackfill(t, candidate_terms,
                     CandidatePass(candidate_terms, <<>>, expected, weak), expected, weak)

resolve_mentions(t, expected, weak) ==
    IF t = <<>> THEN <<>>
    ELSE MentionsFrom(t, _extract_candidate_terms(t), expected, weak)

ExplicitReason == "Alias or direct match"
PlaceholderReason == "User provided address (not in dataset)"
SimilarityReason == "TF-IDF similarity"

\* tools.resolve_properties: the matches, de-duplicated by address.
\* The alias matches, then the memory matches whose address is new.
MergeMatches(alias_hits, memory) ==
    LET direct == [k \in 1..Len(alias_hits) |->
                      IF alias_hits[k] \in DatasetAddresses
                      THEN PropertyMatch(alias_hits[k], ExplicitReason, TRUE)
                      ELSE PropertyMatch(alias_hits[k], PlaceholderReason, FALSE)]
        fresh == SelectIn(memory, {a \in DatasetAddresses : ~InSeq(a, alias_hits)})
    IN direct \o [k \in 1..Len(fresh) |-> PropertyMatch(fresh[k], SimilarityReason, TRUE)]

resolve_properties(t, max_matches, weak) ==
    MergeMatches(extract_addresses(t, max_matches * 2),
                 resolve_mentions(t, max_matches * 2, weak))

missing_assets(t, max_matches) ==
    SelectIn(extract_addresses(t, max_matches * 2), {a \in {<<"building", n>> : n \in DigitWords} : a \notin DatasetAddresses})

HybridReason == "Hybrid similarity (tf-idf + embeddings)"

\* PropertyMemory.search with the embeddings blended in: the embedding of a
\* text is a function of the text, and the blended score of every record is
\* positive and above min_confidence, so every record is ranked: those that
\* share one of their own words with the query first, the others after them
\* in catalog order.
BlendedSearch(q, top_k) ==
    LET own == {i \in RecordIndexes : \E w \in RecordOwnWords(Records[i]) : HasWord(q, w)}
        Rank(S) == [k \in 1..Cardinality(S) |->
                       Records[CHOOSE i \in S : Cardinality({j \in S : j < i}) = k - 1].address]
    IN Take(Rank(own) \o Rank(RecordIndexes \ own), top_k)

\* The per-candidate pass of resolve_mentions with the embeddings blended in.
RECURSIVE BlendedPass(_, _, _)
BlendedPass(cands, matches, expected) ==
    IF cands = <<>> \/ Len(matches) >= expected THEN matches
    ELSE LET ranked == BlendedSearch(Head(cands), 1)
         IN IF ranked = <<>> \/ InSeq(ranked[1], matches)
            THEN BlendedPass(Tail(cands), matches, expected)
            ELSE BlendedPass(Tail(cands), Append(matches, ranked[1]), expected)

BlendedBackfill(t, candidate_terms, first, expected) ==
    IF candidate_terms # <<>> /\ Len(first) < expected
    THEN Backfill(BlendedSearch(t, expected - Len(first)), first, expected)
    ELSE first

BlendedMentions(t, candidate_terms, expected) ==
    BlendedBackfill(t, candidate_terms, BlendedPass(candidate_terms, <<>>, expected), expected)

\* The shared PropertyMemory after __init__: its records, its alias index and
\* whether the embeddings were warmed (OPENAI_API_KEY set and the client
\* available).
PropertyMemory(embeddings_ready) ==
    [records |-> Records, alias_index |-> AllAliases, use_embeddings |-> embeddings_ready]

\* _blend_with_embeddings on the flag: a failing embed_query switches the
\* embeddings off for the memory (line 321).
_blend_with_embeddings(memory, fails) ==
    [memory EXCEPT !.use_embeddings = memory.use_embeddings /\ ~fails]

\* memory.resolve_mentions on a memory whose embeddings are blended in or not:
\* the matched addresses in rank order and the reason label of the matches.
MemoryMentions(t, expected, weak, blended) ==
    [matches |-> IF blended
                 THEN (IF t = <<>> THEN <<>>
                       ELSE BlendedMentions(t, _extract_candidate_terms(t), expected))
                 ELSE resolve_mentions(t, expected, weak),
     reason |-> IF blended THEN HybridReason ELSE SimilarityReason]

\* tools.resolve_properties on the shared memory: the memory result and the
\* merged matches.
ResolutionFrom(alias_hits, memory_result) ==
    [memory_result |-> memory_result, matches |-> MergeMatches(alias_hits, memory_result.matches)]

MemoryResolution(t, max_matches, weak, blended) ==
    ResolutionFrom(extract_addresses(t, max_matches * 2),
                   MemoryMentions(t, max_matches * 2, weak, blended))


\* ------------------------------------------------------------------------
\* Intent parser (app/agents/intent_parser.py), rules only: the supervisor
\* builds it with enable_llm=False.
\* ------------------------------------------------------------------------

PriceTriggers == {"compare", "comparison", "price", "value", "worth", "valuation", "versus", "vs", "delta"}
PnlTriggers == {"p&l", "pnl", "profit", "loss", "income", "statement", "ledger", "noi"}
AssetTriggers == {"detail", "details", "describe", "info", "information", "tenant", "occupancy"}
ParserPnlWords == {"p&l", "pnl", "profit", "loss", "income", "revenue", "expense", "net"}

_extract_address_terms(t) ==
    Take(Dedupe(PatternTerms(t, "building") \o SplitPieces(t, <<>>, _ADDRESS_SEPARATORS)), 4)

\* Lines 145-149: the adjustments of the request type.
ParsedType(tokens, rt1, pnl_with_time) ==
    LET rt2 == IF Len(tokens) < 4 /\ rt1 = "general" THEN "clarification" ELSE rt1
    IN IF rt2 = "price_comparison" /\ pnl_with_time THEN "pnl" ELSE rt2

IntentParseResult(request_type, address_terms, comparison_markers) ==
    LET needs_clarification == request_type = "price_comparison" /\ Len(address_terms) < 2
    IN [request_type |-> request_type,
        address_terms |-> address_terms,
        comparison_markers |-> comparison_markers,
        needs_clarification |-> needs_clarification,
        missing_fields |-> IF needs_clarification THEN <<"second_property">> ELSE <<>>]

ParseFrom(lowered, address_terms) ==
    LET general_question == GeneralQuestion(lowered)
        prioritized ==
            IF HasAnyKeyword(lowered, PriceTriggers) THEN "price_comparison"
            ELSE IF HasAnyKeyword(lowered, PnlTriggers) THEN "pnl"
            ELSE IF HasAnyKeyword(lowered, AssetTriggers)
                    \/ HasPhrase(lowered, <<"tell", "me", "about">>) THEN "asset_details"
            ELSE "general"
        property_like_terms ==
            {k \in 1..Len(address_terms) :
                \E i \in 1..Len(address_terms[k]) :
                    address_terms[k][i] \in {"building", "suite", "unit", "property"} \cup DigitWords}
        comparison_markers ==
            HasAnyKeyword(lowered, {"against", "between"}) \/ HasAnyWord(lowered, {"versus", "vs"})
            \/ HasPhrase(lowered, <<"compared", "to">>)
        has_time_hint ==
            HasAnyWord(lowered, YearWords) \/ HasAnyWord(lowered, {"q1", "q2", "q3", "q4"})
            \/ HasAnyKeyword(lowered, {"month", "quarter", "year"})
            \/ HasAnyWord(lowered, MonthWords)
        has_asset_keyword ==
            property_like_terms # {} \/ HasAnyWord(lowered, {"building", "property", "tenant", "unit"})
        has_price_keyword == HasAnyKeyword(lowered, {"price", "valuation", "worth", "value"})
        has_pnl_keyword == HasAnyKeyword(lowered, ParserPnlWords)
        rt1 == IF general_question /\ ~comparison_markers /\ ~has_price_keyword
                  /\ ~(has_pnl_keyword /\ has_time_hint) /\ ~has_asset_keyword
               THEN "general"
               ELSE prioritized
    IN IntentParseResult(ParsedType(lowered, rt1, has_pnl_keyword /\ has_time_hint),
                         address_terms, comparison_markers)

_rules_only_parse(t) == ParseFrom(t, _extract_address_terms(t))


\* ------------------------------------------------------------------------
\* Supervisor (app/agents/supervisor.py)
\* ------------------------------------------------------------------------

RequestType == {"price_comparison", "pnl", "asset_details", "general", "clarification"}

normalize_request_type(value) == IF value \in RequestType THEN value ELSE "general"

_map_request_type(value) ==
    IF value = None \/ value = "" THEN "general"
    ELSE IF value = "unsupported" THEN "clarification"
    ELSE normalize_request_type(value)

_interpret_period_label(label) ==
    IF label = <<>> THEN NoPeriodInfo
    ELSE IF Len(label) = 2 /\ label[2] \in MonthCodes
         THEN PeriodInfo(label, "month", label[1], <<>>, label)
    ELSE IF Len(label) = 2 /\ label[2] \in QuarterCodes
         THEN PeriodInfo(label, "quarter", label[1], label, <<>>)
    ELSE IF Len(label) = 1 /\ label[1] \in YearWords
         THEN PeriodInfo(label, "year", label[1], <<>>, <<>>)
    ELSE PeriodInfo(label, None, None, <<>>, <<>>)

\* The payloads of the labels that _comparison_payload_from_label accepts.
RECURSIVE ComparisonPayloads(_)
ComparisonPayloads(labels) ==
    IF labels = <<>> THEN <<>>
    ELSE LET info == _interpret_period_label(Head(labels))
         IN (IF info.label = <<>> \/ info.level = None \/ info.year = None
             THEN <<>> ELSE <<info>>) \o ComparisonPayloads(Tail(labels))

\* tools.extract_comparison_periods: the period mentions of the text, left
\* to right.  A month named without a year takes the year of the first
\* year mentioned after it, or the current year.
RECURSIVE PeriodMentions(_, _)
PeriodMentions(t, i) ==
    IF i > Len(t) THEN <<>>
    ELSE LET next == IF i < Len(t) THEN t[i + 1] ELSE ""
             rest == SubSeq(t, i + 1, Len(t))
         IN IF t[i] \in YearWords /\ next \in QuarterWords
            THEN << <<t[i], QuarterCode(next)>> >> \o PeriodMentions(t, i + 2)
            ELSE IF t[i] \in QuarterWords /\ next \in YearWords
            THEN << <<next, QuarterCode(t[i])>> >> \o PeriodMentions(t, i + 2)
            ELSE IF t[i] \in MonthWords /\ next \in YearWords
            THEN << <<next, MonthCode(t[i])>> >> \o PeriodMentions(t, i + 2)
            ELSE IF t[i] \in YearWords /\ next \in MonthWords
            THEN << <<t[i], MonthCode(next)>> >> \o PeriodMentions(t, i + 2)
            ELSE IF t[i] \in MonthWords
            THEN << <<IF HasAnyWord(rest, YearWords) THEN FirstIn(rest, YearWords) ELSE NowYear,
                      MonthCode(t[i])>> >> \o PeriodMentions(t, i + 1)
            ELSE IF t[i] \in YearWords
            THEN << <<t[i]>> >> \o PeriodMentions(t, i + 1)
            ELSE PeriodMentions(t, i + 1)

extract_comparison_periods(t, max_periods) ==
    ComparisonPayloads(Take(PeriodMentions(t, 1), max_periods))

\* A pending question: the field it asks for and the kind of answer.
ClarificationItem(field, kind) == [field |-> field, kind |-> kind]

QueryContext(user_input) ==
    [user_input |-> user_input, request_type |-> "general", addresses |-> <<>>,
     period |-> <<>>, period_level |-> None, property_name |-> <<>>,
     tenant_name |-> <<>>, year |-> None, quarter |-> <<>>, month |-> <<>>,
     needs_clarification |-> FALSE, clarification_reasons |-> <<>>,
     comparison_periods |-> <<>>, aggregation_level |-> None,
     clarifications |-> <<>>, awaiting_user_reply |-> FALSE]


SupervisorDecision(request_type, addresses, period, property_name, tenant_name, missing, comparison_periods, aggregation_level, clarifications, awaiting_user_reply) ==
    [request_type |-> request_type, addresses |-> addresses,
     period |-> period.label, period_level |-> period.level,
     property_name |-> property_name, tenant_name |-> tenant_name,
     missing_requirements |-> missing, needs_clarification |-> missing # <<>>,
     year |-> period.year, quarter |-> period.quarter, month |-> period.month,
     comparison_periods |-> comparison_periods, aggregation_level |-> aggregation_level,
     clarifications |-> clarifications, awaiting_user_reply |-> awaiting_user_reply]

AppendIfAbsent(s, cond, x) == IF cond /\ ~InSeq(x, s) THEN Append(s, x) ELSE s

\* Per-type rules that never ask for an aggregation level.
PerTypeMissingUngrained(missing, request_type, addresses, property_name, tenant_name, period, comparison_periods) ==
    LET missing1 == AppendIfAbsent(missing,
                        request_type = "price_comparison" /\ Len(addresses) < 2,
                        "second_property")
        missing2 == AppendIfAbsent(missing1,
                        request_type = "asset_details" /\ addresses = <<>>, "property")
    IN missing2 \o
       (IF request_type = "pnl" /\ period.label = <<>> /\ period.year = None
           /\ period.quarter = <<>> /\ period.month = <<>>
           /\ comparison_periods = <<>>
        THEN <<"period">> ELSE <<>>)

\* Comparison rules that do not count the explicit matches.
ComparisonMissingUncounted(missing, comparison_periods, explicit_property_count, resolved_count) ==
    AppendIfAbsent(AppendIfAbsent(missing,
                       comparison_periods # <<>> /\ Len(comparison_periods) # 2,
                       "comparison_periods"),
                   comparison_periods # <<>> /\ resolved_count = 0, "property")

\* Lines 207-223: what each request type requires, added to what the
\* classifier and the parser reported missing.
PerTypeMissing(missing, request_type, addresses, property_name, tenant_name, period, comparison_periods) ==
    LET missing1 == AppendIfAbsent(missing,
                        request_type = "price_comparison" /\ Len(addresses) < 2,
                        "second_property")
        missing2 == AppendIfAbsent(missing1,
                        request_type = "asset_details" /\ addresses = <<>>, "property")
        missing3 == missing2 \o
                    (IF request_type = "pnl" /\ period.label = <<>> /\ period.year = None
                        /\ period.quarter = <<>> /\ period.month = <<>>
                        /\ comparison_periods = <<>>
                     THEN <<"period">> ELSE <<>>)
        aggregation_required ==
            /\ request_type = "pnl"
            /\ property_name # <<>>
            /\ tenant_name = <<>>
            /\ \/ period.level = "year"
               \/ period.year # None /\ period.quarter = <<>> /\ period.month = <<>>
    IN AppendIfAbsent(missing3, aggregation_required, "aggregation_level")

\* Lines 225-232: what a period comparison requires.
ComparisonMissing(missing, comparison_periods, explicit_property_count, resolved_count) ==
    LET missing5 == AppendIfAbsent(missing,
                        comparison_periods # <<>> /\ Len(comparison_periods) # 2,
                        "comparison_periods")
        missing6 == AppendIfAbsent(missing5,
                        comparison_periods # <<>> /\ explicit_property_count > 1,
                        "property_selection")
    IN AppendIfAbsent(missing6,
                      comparison_periods # <<>> /\ resolved_count = 0, "property")

\* Lines 207-234: the missing requirements of a fresh request.
NewRequestMissing(missing, request_type, addresses, property_name, tenant_name, period, comparison_periods, explicit_property_count, resolved_count) ==
    Dedupe(ComparisonMissing(
               PerTypeMissing(missing, request_type, addresses, property_name,
                              tenant_name, period, comparison_periods),
               comparison_periods, explicit_property_count, resolved_count))

\* Lines 163-172 and 207-275 of _classify_new_request: the names, the
\* missing requirements and the decision, once the matches, the comparison
\* periods and the period are settled.
NewRequestDecision(user_input, classifier_result, parse_result, request_type, explicit_matches, resolved_matches, comparison_periods, period) ==
    LET combined_address_terms ==
            Dedupe(parse_result.address_terms \o classifier_result.addresses)
        address_limit == IF request_type = "price_comparison" THEN 2 ELSE 1
        primary_matches == Take(resolved_matches, address_limit)
        addresses == [k \in 1..Len(primary_matches) |-> primary_matches[k].address]
        tenants == extract_tenant_names(user_input)
        property_name ==
            IF primary_matches # <<>> THEN primary_matches[1].property_name
            ELSE IF request_type \in {"asset_details", "price_comparison"}
                    /\ combined_address_terms # <<>>
                 THEN combined_address_terms[1]
                 ELSE <<>>
        tenant_name == IF tenants # <<>> THEN tenants[1] ELSE <<>>
        missing == Dedupe(classifier_result.missing_fields \o parse_result.missing_fields)
    IN SupervisorDecision(request_type, addresses, period, property_name, tenant_name,
           NewRequestMissing(missing, request_type, addresses, property_name, tenant_name,
                             period, comparison_periods, Len(explicit_matches),
                             Len(resolved_matches)),
           comparison_periods, None, <<>>, FALSE)

\* Lines 155-160: the classifier's period, completed by the period hint.
FoundPeriod(interpreted, period_info) ==
    PeriodInfo(IF interpreted.label # <<>> THEN interpreted.label ELSE period_info.label,
               IF interpreted.level # None THEN interpreted.level ELSE period_info.level,
               IF interpreted.year # None THEN interpreted.year ELSE period_info.year,
               IF interpreted.quarter # <<>> THEN interpreted.quarter ELSE period_info.quarter,
               IF interpreted.month # <<>> THEN interpreted.month ELSE period_info.month)

\* Lines 154-160 and 200-205: the first comparison period replaces the
\* period found.
NewRequestPeriod(user_input, classifier_result, parse_result, request_type, explicit_matches, resolved_matches, comparison_periods) ==
    NewRequestDecision(user_input, classifier_result, parse_result, request_type,
        explicit_matches, resolved_matches, comparison_periods,
        IF comparison_periods # <<>>
        THEN PeriodInfo(comparison_periods[1].label, comparison_periods[1].level,
                        None, <<>>, comparison_periods[1].month)
        ELSE FoundPeriod(_interpret_period_label(classifier_result.period),
                         extract_period_hint(user_input)))

\* Lines 177-198: the comparison periods.
NewRequestComparison(user_input, classifier_result, parse_result, request_type, explicit_matches, resolved_matches) ==
    LET comparison_markers ==
            parse_result.comparison_markers
            \/ HasAnyWord(user_input, {"compare", "versus", "vs", "between", "difference"})
            \/ classifier_result.comparison_periods # <<>>
        classifier_comparisons == ComparisonPayloads(classifier_result.comparison_periods)
        tool_periods ==
            IF request_type = "pnl" /\ (comparison_markers \/ classifier_comparisons # <<>>)
            THEN extract_comparison_periods(user_input, 2) ELSE <<>>
    IN NewRequestPeriod(user_input, classifier_result, parse_result, request_type,
           explicit_matches, resolved_matches,
           IF tool_periods # <<>> THEN tool_periods ELSE classifier_comparisons)

\* Lines 147-149: the matches that count.
NewRequestMatches(user_input, classifier_result, parse_result, request_type, dataset_matches) ==
    LET explicit_matches == SelectSeq(dataset_matches, LAMBDA m : m.reason = ExplicitReason)
    IN NewRequestComparison(user_input, classifier_result, parse_result, request_type,
           explicit_matches,
           IF explicit_matches # <<>> THEN explicit_matches ELSE dataset_matches)

\* Lines 144-147: property resolution for the request type.
NewRequestProperties(user_input, classifier_result, parse_result, request_type, weak) ==
    NewRequestMatches(user_input, classifier_result, parse_result, request_type,
        SelectSeq(resolve_properties(user_input,
                                     IF request_type = "price_comparison" THEN 4 ELSE 2,
                                     weak),
                  LAMBDA m : m.metadata))

\* Line 137: the classifier's request type, mapped.
NewRequestFrom(user_input, classifier_result, parse_result, weak) ==
    NewRequestProperties(user_input, classifier_result, parse_result,
                         _map_request_type(classifier_result.request_type), weak)

\* SupervisorAgent._classify_new_request, given what the classifier's model
\* call returned.  The context is only read.
_classify_new_request(context, llm_result, weak) ==
    NewRequestFrom(context.user_input, classify(context.user_input, llm_result),
                   _rules_only_parse(context.user_input), weak)


_decision_from_context(context, missing) ==
    SupervisorDecision(
        IF context.request_type \in RequestType THEN context.request_type ELSE "general",
        context.addresses,
        PeriodInfo(context.period, context.period_level, context.year,
                   context.quarter, context.month),
        context.property_name, context.tenant_name, missing,
        context.comparison_periods, context.aggregation_level,
        context.clarifications, context.awaiting_user_reply)

_has_period(context) ==
    \/ context.period # <<>>
    \/ context.year # None
    \/ context.quarter # <<>>
    \/ context.month # <<>>
    \/ context.comparison_periods # <<>>

_compute_missing_requirements(context) ==
    LET request_type ==
            IF context.request_type \in RequestType THEN context.request_type ELSE "general"
    IN IF request_type = "pnl"
       THEN (IF context.property_name = <<>> THEN <<"property">> ELSE <<>>)
            \o (IF ~_has_period(context) THEN <<"period">> ELSE <<>>)
            \o (IF context.comparison_periods # <<>> /\ Len(context.comparison_periods) # 2
                THEN <<"comparison_periods">> ELSE <<>>)
            \o (IF context.tenant_name = <<>> /\ context.aggregation_level = None
                THEN <<"aggregation_level">> ELSE <<>>)
       ELSE IF request_type = "asset_details"
       THEN (IF context.addresses = <<>> THEN <<"property">> ELSE <<>>)
       ELSE IF request_type = "price_comparison"
       THEN (IF Len(context.addresses) < 2 THEN <<"second_property">> ELSE <<>>)
       ELSE <<>>

\* The vocabulary words that start with each prefix _normalize_aggregation_level
\* tests.
TenantPrefixWords == {"tenant", "tenants"}
PropPrefixWords == {"property"}
CombinedPrefixWords == {"combined", "portfolio", "total"}

\* A normaliser that accepts the three option names only.
_normalize_aggregation_level_exact(answer) ==
    IF answer = <<"tenant">> THEN "tenant"
    ELSE IF answer = <<"property">> THEN "property"
    ELSE IF answer = <<"combined">> THEN "combined"
    ELSE None

_normalize_aggregation_level(answer) ==
    IF answer = <<>> THEN None
    ELSE IF answer[1] \in TenantPrefixWords THEN "tenant"
    ELSE IF answer[1] \in PropPrefixWords THEN "property"
    ELSE IF answer[1] \in CombinedPrefixWords THEN "combined"
    ELSE None

\* A normaliser that takes a granularity word for the current period of
\* that grain.
_normalize_period_answer_resolving(answer) ==
    IF answer \in {<<"year">>, <<"yearly">>, <<"quarter">>, <<"month">>}
    THEN [info |-> PeriodInfo(<<NowYear>>, "year", NowYear, <<>>, <<>>),
          granularity |-> None, additional |-> FALSE]
    ELSE [info |-> extract_period_hint(answer), granularity |-> None, additional |-> FALSE]

\* _normalize_period_answer: the period found, or the granularity named, and
\* whether a concrete period is still required.
PeriodAnswerFrom(answer, info) ==
    IF info.label # <<>> THEN [info |-> info, granularity |-> None, additional |-> FALSE]
    ELSE IF answer \in {<<"year">>, <<"annual">>, <<"yearly">>}
    THEN [info |-> NoPeriodInfo, granularity |-> "year", additional |-> TRUE]
    ELSE IF answer \in {<<"quarter">>, <<"quarterly">>}
    THEN [info |-> NoPeriodInfo, granularity |-> "quarter", additional |-> TRUE]
    ELSE IF answer \in {<<"month">>, <<"monthly">>}
    THEN [info |-> NoPeriodInfo, granularity |-> "month", additional |-> TRUE]
    ELSE [info |-> NoPeriodInfo, granularity |-> None, additional |-> FALSE]

_normalize_period_answer(answer) == PeriodAnswerFrom(answer, extract_period_hint(answer))

_apply_period_info(context, info) ==
    [context EXCEPT !.period = info.label, !.period_level = info.level, !.year = info.year,
                    !.quarter = info.quarter, !.month = info.month]


\* A handler that queues the next question behind the answered one.
AppendClarification(context) ==
    [context EXCEPT !.clarifications = Append(@, ClarificationItem("period", "free")),
                    !.awaiting_user_reply = FALSE]

\* A pop that leaves the session awaiting a reply.
PopClarificationAwaiting(context) ==
    [context EXCEPT !.clarifications = SubSeq(@, 1, Len(@) - 1)]

\* Lines 335-337: the answered item leaves the list.
PopClarification(context) ==
    [context EXCEPT !.clarifications = SubSeq(@, 1, Len(@) - 1),
                    !.awaiting_user_reply = FALSE]

\* A handler that gives up the question it could not get answered.
StayAwaitingDropping(context, last_item) ==
    LET stay == [context EXCEPT !.clarifications = <<>>]
    IN [context |-> stay, decision |-> _decision_from_context(stay, <<last_item.field>>),
        handled |-> FALSE]

\* Lines 292-295 and 338-341: the turn does not advance.
StayAwaiting(context, last_item) ==
    LET stay == [context EXCEPT !.awaiting_user_reply = TRUE]
        reasons == IF context.clarification_reasons # <<>>
                   THEN context.clarification_reasons ELSE <<last_item.field>>
    IN [context |-> stay, decision |-> _decision_from_context(stay, reasons),
        handled |-> FALSE]

\* Lines 343-353: the decision built from the context the call leaves.
FollowUpResult(final, missing) ==
    [context |-> final, decision |-> _decision_from_context(final, missing), handled |-> TRUE]

\* Lines 343-347: the requirements still missing are written to the context.
FollowUpMissing(popped, missing) ==
    FollowUpResult([popped EXCEPT !.clarification_reasons = missing,
                                  !.needs_clarification = missing # <<>>,
                                  !.clarifications = IF missing = <<>> THEN <<>> ELSE @],
                   missing)

\* Lines 335-345: the answered item is removed and the requirements are
\* computed again.
FollowUpAccepted(popped, requires_additional) ==
    FollowUpMissing(popped, AppendIfAbsent(_compute_missing_requirements(popped),
                                           requires_additional, "period"))

\* Lines 297-341: the answer is applied to the field the pending item names.
FollowUpFrom(context, last_item, answer, aggregation, period, matches) ==
    LET handled ==
            CASE last_item.field = "aggregation_level" -> aggregation # None
              [] last_item.field = "period" ->
                     period.info.label # <<>> \/ period.granularity # None
              [] OTHER -> TRUE
        updated ==
            CASE last_item.field = "aggregation_level" ->
                     [context EXCEPT !.aggregation_level = aggregation]
              [] last_item.field = "period" ->
                     IF period.additional
                     THEN [context EXCEPT !.period_level = period.granularity]
                     ELSE _apply_period_info(context, period.info)
              [] last_item.field = "tenant_name" -> [context EXCEPT !.tenant_name = answer]
              [] last_item.field = "property_name" /\ matches # <<>> ->
                     [context EXCEPT !.property_name = matches[1].property_name,
                                     !.addresses = <<matches[1].address>>]
              [] OTHER -> context
    IN IF answer = <<>> \/ ~handled
       THEN StayAwaiting(context, last_item)
       ELSE FollowUpAccepted(PopClarification(updated),
                             last_item.field = "period" /\ period.additional)

\* SupervisorAgent._handle_follow_up: the context as the call leaves it, the
\* decision returned and whether the answer was accepted.  The value the
\* call writes into the pending item is not kept: an item that gets a value
\* is removed by the same call.
_handle_follow_up(context, weak) ==
    FollowUpFrom(context, context.clarifications[Len(context.clarifications)],
                 context.user_input,
                 _normalize_aggregation_level(context.user_input),
                 _normalize_period_answer(context.user_input),
                 resolve_properties(context.user_input, 1, weak))

\* An analyze that classifies every message afresh.
analyze_reclassifying(context, llm_result, weak) ==
    [path |-> "fresh", context |-> context,
     decision |-> _classify_new_request(context, llm_result, weak),
     handled |-> FALSE]

\* What analyze makes of the follow-up handler's outcome.
FollowUpOutcome(r) ==
    [path |-> "follow_up", context |-> r.context, decision |-> r.decision,
     handled |-> r.handled]

\* SupervisorAgent.analyze on a QueryContext: which path ran, the context
\* afterwards and the decision.  Only the fresh path runs the classifier.
analyze(context, llm_result, weak) ==
    IF context.awaiting_user_reply /\ context.clarifications # <<>>
    THEN FollowUpOutcome(_handle_follow_up(context, weak))
    ELSE [path |-> "fresh", context |-> context,
          decision |-> _classify_new_request(context, llm_result, weak),
          handled |-> FALSE]


\* ------------------------------------------------------------------------
\* Workflow (app/graph/workflow.py, app/api/main.py)
\* ------------------------------------------------------------------------

\* The assignments of _classify_node (lines 72-91).
CopyDecision(context, d) ==
    [context EXCEPT !.request_type = d.request_type, !.addresses = d.addresses,
                    !.period = d.period, !.period_level = d.period_level,
                    !.property_name = d.property_name, !.tenant_name = d.tenant_name,
                    !.year = d.year, !.quarter = d.quarter, !.month = d.month,
                    !.comparison_periods = d.comparison_periods,
                    !.needs_clarification = d.needs_clarification,
                    !.clarification_reasons = d.missing_requirements]

\* _classify_node: analyze is handed the text, so it builds its own context.
ClassifyNodeFrom(context, r) ==
    [path |-> r.path, context |-> CopyDecision(context, r.decision),
     decision |-> r.decision, handled |-> r.handled]

_classify_node(context, llm_result, weak) ==
    ClassifyNodeFrom(context, analyze(QueryContext(context.user_input), llm_result, weak))

\* chat_endpoint: every message gets a new context.
chat_endpoint(message, llm_result, weak) ==
    _classify_node(QueryContext(message), llm_result, weak)

\* ------------------------------------------------------------------------
\* Inputs
\* ------------------------------------------------------------------------

Requests ==
    { <<"show", "p&l", "for", "building", "180", "for", "march", "2025">>,
      <<"p&l", "for", "building", "180">>,
      <<"p&l", "for", "building", "180", "for", "2025">>,
      <<"p&l", "for", "2025">>,
      <<"p&l", "for", "acme", "for", "2025">>,
      <<"p&l", "for", "building", "999", "for", "q1", "2025">>,
      <<"what", "is", "noi">>,
      <<"what", "is", "the", "price", "of", "building", "180">>,
      <<"tell", "me", "about", "building", "140">>,
      <<"tell", "me", "about", "the", "property">>,
      <<"compare", "building", "180", "and", "building", "140">>,
      <<"compare", "2025", "p&l", "for", "building", "180">>,
      <<"compare", "january", "2025", "p&l", "for", "building", "180">>,
      <<"compare", "january", "and", "february", "2025", "p&l", "for", "building", "180">> }

Answers ==
    { <<>>, <<"hello">>, <<"property">>, <<"tenant">>, <<"combined">>, <<"portfolio">>,
      <<"total">>, <<"year">>, <<"yearly">>, <<"quarter">>, <<"month">>, <<"2025">>,
      <<"march", "2025">>, <<"q1", "2025">>, <<"building", "180">>, <<"building", "999">>,
      <<"acme">> }

Messages == Requests \cup Answers

\* What the classifier's model call can return: nothing, or a suggestion of
\* one of the request types.
Suggestions ==
    {NoSuggestion}
    \cup {ClassificationResult(rt, <<>>, <<>>, <<>>, <<>>, FALSE) : rt \in _REQUEST_TYPE_VALUES}

\* The requests the session's caller sends besides answers.
SessionRequests ==
    { <<"show", "p&l", "for", "building", "180", "for", "march", "2025">>,
      <<"p&l", "for", "building", "180">>,
      <<"what", "is", "noi">>,
      <<"tell", "me", "about", "building", "140">>,
      <<"compare", "2025", "p&l", "for", "building", "180">> }

SessionMessages == SessionRequests \cup Answers

SessionSuggestions ==
    {NoSuggestion, ClassificationResult("general", <<>>, <<>>, <<>>, <<>>, FALSE)}

\* The fields a caller can ask about for a missing requirement.
PendingFieldsFor(missing) ==
    (IF InSeq("property", missing) THEN {"property_name", "tenant_name"} ELSE {})
    \cup (IF InSeq("period", missing) THEN {"period"} ELSE {})
    \cup (IF InSeq("aggregation_level", missing) THEN {"aggregation_level"} ELSE {})

KindOf(field) ==
    CASE field = "aggregation_level" -> "choice"
      [] field = "period" -> "granularity"
      [] OTHER -> "free"

\* A context as a caller hands it to analyze with a question pending (as
\* tests/test_agents.py builds them): the slots of an earlier decision, one
\* pending item and awaiting_user_reply set.
AwaitingContext(d, field) ==
    [CopyDecision(QueryContext(<<>>), d) EXCEPT
        !.needs_clarification = TRUE,
        !.clarification_reasons = IF d.missing_requirements # <<>>
                                  THEN d.missing_requirements ELSE <<field>>,
        !.clarifications = <<ClarificationItem(field, KindOf(field))>>,
        !.awaiting_user_reply = TRUE]


\* ------------------------------------------------------------------------
\* The session: analyze called on the session's context, and messages sent
\* through the workflow.
\* ------------------------------------------------------------------------

GranularityAnswers == {<<"year">>, <<"yearly">>, <<"quarter">>, <<"month">>}
PeriodAnswers == {<<"2025">>, <<"march", "2025">>, <<"q1", "2025">>}
AggregationAnswers == {<<"property">>, <<"tenant">>, <<"combined">>, <<"portfolio">>, <<"total">>}

\* A decision the specialists can act on.
Routable(d) ==
    d.request_type = "pnl" /\ d.missing_requirements = <<>> /\ ~d.awaiting_user_reply

\* Position in the dialogue "granularity, then period, then aggregation
\* level" once the turn's text is known; "none" when the turns left it.
NextStep(step, text) ==
    IF step = "asked" /\ text \in GranularityAnswers THEN "granularity"
    ELSE IF step = "granularity" /\ text \in PeriodAnswers THEN "period"
    ELSE IF step = "period" /\ text \in AggregationAnswers THEN "aggregation"
    ELSE "none"

NoDecision == _decision_from_context(QueryContext(<<>>), <<>>)

InitialContexts(w) ==
    {QueryContext(<<>>)}
    \cup UNION {{AwaitingContext(d, f) : f \in PendingFieldsFor(d.missing_requirements)} :
                d \in {_classify_new_request(QueryContext(m), NoSuggestion, w) : m \in Requests}}

\* A run of ClassificationLayer.classify: its input, what the model call
\* returned, and the result once the run is done.
ClassifierRun(input, suggestion, done) ==
    [input |-> input, suggestion |-> suggestion, done |-> done,
     result |-> classify(IF done THEN input ELSE <<>>,
                         IF done THEN suggestion ELSE NoSuggestion)]

NoRun == ClassifierRun(<<>>, NoSuggestion, FALSE)

Init ==
    /\ weak_dataset \in BOOLEAN
    /\ ctx \in InitialContexts(weak_dataset)
    /\ decision = NoDecision
    /\ last = [op |-> "init", path |-> "none", handled |-> FALSE, after_open |-> FALSE]
    /\ dialogue = [step |-> IF ctx.request_type = "pnl" /\ ctx.clarifications # <<>>
                               /\ ctx.clarifications[1].field = "period"
                               /\ ~_has_period(ctx)
                            THEN "asked" ELSE "none",
                   resolved |-> FALSE]
    /\ cls = NoRun

\* What a call of supervisor.analyze that returned r leaves behind.
AnalyzeStep(text, llm_result, r) ==
    /\ last' = [op |-> "analyze", path |-> r.path, handled |-> r.handled,
                after_open |-> FALSE]
    /\ ctx' = r.context
    /\ decision' = r.decision
    /\ dialogue' = [step |-> NextStep(dialogue.step, text),
                    resolved |-> /\ NextStep(dialogue.step, text) # "none"
                                 /\ (dialogue.resolved \/ Routable(decision'))]
    /\ cls' = IF last'.path = "fresh" THEN ClassifierRun(text, llm_result, TRUE) ELSE cls
    /\ UNCHANGED weak_dataset

\* The caller puts the message into the session's context and calls
\* supervisor.analyze(context).
Analyze(text, llm_result) ==
    AnalyzeStep(text, llm_result,
                analyze([ctx EXCEPT !.user_input = text], llm_result, weak_dataset))

\* _route_from_supervisor and the node it leads to: the agent whose run method
\* the node calls on the context the supervisor node left, "none" when the
\* node answers with a clarification or an error instead.
SpecialistRun(context, has_price) ==
    CASE context.request_type = "price_comparison" ->
             IF has_price /\ Len(context.addresses) >= 2 THEN "price_agent" ELSE "none"
      [] context.request_type = "pnl" ->
             IF context.needs_clarification THEN "none" ELSE "pnl_agent"
      [] context.request_type = "asset_details" ->
             IF context.addresses # <<>> THEN "asset_agent" ELSE "none"
      [] context.request_type = "general" -> "general_agent"
      [] OTHER -> "none"

\* The outcome r of the supervisor node becomes the session's state, and the
\* node the request is routed to runs.
ChatStep(text, llm_result, has_price, r) ==
    /\ last' = [op |-> "chat", path |-> r.path, handled |-> r.handled,
                after_open |-> last.op = "chat" /\ ctx.needs_clarification,
                ran |-> SpecialistRun(r.context, has_price)]
    /\ ctx' = r.context
    /\ decision' = r.decision
    /\ dialogue' = [step |-> "none", resolved |-> FALSE]
    /\ cls' = IF last'.path = "fresh" THEN ClassifierRun(text, llm_result, TRUE) ELSE cls
    /\ UNCHANGED weak_dataset

\* A message posted to /chat: a new context, run through the workflow, on a
\* dataset with or without a price column (tools.has_price_data).
ChatEndpoint(text, llm_result, has_price) ==
    ChatStep(text, llm_result, has_price, chat_endpoint(text, llm_result, weak_dataset))

Next == \E text \in SessionMessages, llm_result \in SessionSuggestions : Analyze(text, llm_result)

Spec == Init /\ [][Next]_vars

\* The workflow alone: every message arrives through /chat.
InitWorkflow ==
    /\ weak_dataset \in BOOLEAN
    /\ ctx = QueryContext(<<>>)
    /\ decision = NoDecision
    /\ last = [op |-> "init", path |-> "none", handled |-> FALSE, after_open |-> FALSE]
    /\ dialogue = [step |-> "none", resolved |-> FALSE]
    /\ cls = NoRun

\* The messages posted to /chat.
WorkflowMessages ==
    Messages
    \cup { <<"show", "comparison", "for", "acme", "property">>,
           <<"compare", "price", "of", "building", "180", "and", "building", "140",
             "january", "2025", "versus", "february", "2025">> }

NextWorkflow ==
    \E text \in WorkflowMessages, llm_result \in SessionSuggestions, has_price \in BOOLEAN :
        ChatEndpoint(text, llm_result, has_price)

SpecWorkflow == InitWorkflow /\ [][NextWorkflow]_vars


\* ------------------------------------------------------------------------
\* The classifier alone: one run of classify on a text and a suggestion.
\* ------------------------------------------------------------------------

MaxSegments == 4

Segments ==
    { <<"what", "is">>, <<"price">>, <<"compare">>, <<"p&l">>, <<"building", "180">>,
      <<"2025">>, <<"march", "2025">> }

RECURSIVE TextsOf(_)
TextsOf(n) ==
    IF n = 0 THEN {<<>>}
    ELSE LET shorter == TextsOf(n - 1)
         IN shorter \cup {t \o g : t \in shorter, g \in Segments}

ClassifyTexts == TextsOf(MaxSegments)

InitClassify ==
    /\ weak_dataset = FALSE
    /\ ctx = QueryContext(<<>>)
    /\ decision = NoDecision
    /\ last = [op |-> "init", path |-> "none", handled |-> FALSE, after_open |-> FALSE]
    /\ dialogue = [step |-> "none", resolved |-> FALSE]
    /\ cls \in {ClassifierRun(text, llm_result, FALSE) :
                   text \in ClassifyTexts, llm_result \in Suggestions}

Classify ==
    /\ ~cls.done
    /\ cls' = ClassifierRun(cls.input, cls.suggestion, TRUE)
    /\ UNCHANGED <<ctx, decision, last, dialogue, weak_dataset>>

NextClassify == Classify

SpecClassify == InitClassify /\ [][NextClassify]_vars

\* ---------------------------------------------------------------------------
\* classify with the external model enabled: one call per text and per outcome
\* of ClassificationLayer._invoke_llm.
\* ---------------------------------------------------------------------------

RequestTypeValues == _REQUEST_TYPE_VALUES \cup {"banana", "7", ""}

AddressValues ==
    { Absent,
      Raw("list", << <<"building", "140">> >>),
      Raw("number", <<>>),
      Raw("string", << <<"1">>, <<"4">>, <<"0">> >>) }

PeriodValues == {Absent, Raw("string", <<"march", "2025">>), Raw("number", <<>>)}

ComparisonValues ==
    { Absent,
      Raw("list", << <<"2024">>, <<"2025">> >>),
      Raw("string", <<"2024", "2025">>) }

MissingValues == {Absent, Raw("list", <<"period">>), Raw("number", <<>>)}

Payloads ==
    { [kind |-> "object", request_type |-> rt, addresses |-> a, period |-> p,
       comparison_periods |-> c, missing_fields |-> m, clarifications_needed |-> n] :
          rt \in RequestTypeValues, a \in AddressValues, p \in PeriodValues,
          c \in ComparisonValues, m \in MissingValues, n \in BOOLEAN }

Responses ==
    {[kind |-> "disabled"], [kind |-> "failed"], [kind |-> "not_json"]}
    \cup {[kind |-> "json", payload |-> payload] : payload \in Payloads \cup {NotAnObject}}

\* classify reaches _invoke_llm only for a non-blank text (line 211); the
\* TypeError of _result_from_payload leaves classify without a result.
InvokeRaises(input, response) ==
    /\ input # <<>>
    /\ response.kind = "json"
    /\ PayloadRaises(response.payload)

InvokeOutcome(input, response, done, raised) ==
    [input |-> input, response |-> response, done |-> done, raised |-> raised,
     result |-> classify(IF done /\ ~raised THEN input ELSE <<>>,
                         IF done /\ ~raised THEN _invoke_llm(response) ELSE NoSuggestion)]

InvokeRun(input, response, done) ==
    InvokeOutcome(input, response, done, done /\ InvokeRaises(input, response))

InitInvoke ==
    /\ weak_dataset = FALSE
    /\ ctx = QueryContext(<<>>)
    /\ decision = NoDecision
    /\ last = [op |-> "init", path |-> "none", handled |-> FALSE, after_open |-> FALSE]
    /\ dialogue = [step |-> "none", resolved |-> FALSE]
    /\ cls \in {InvokeRun(text, response, FALSE) :
                   text \in Requests \cup {<<>>}, response \in Responses}

Invoke ==
    /\ ~cls.done
    /\ cls' = InvokeRun(cls.input, cls.response, TRUE)
    /\ UNCHANGED <<ctx, decision, last, dialogue, weak_dataset>>

NextInvoke == Invoke

SpecInvoke == InitInvoke /\ [][NextInvoke]_vars

\* ---------------------------------------------------------------------------
\* One call of supervisor.analyze, on a context without a pending question
\* (the fresh path) or on a context that awaits a reply (the follow-up path),
\* for requests of every type.
\* ---------------------------------------------------------------------------

TurnRequests ==
    Requests
    \cup { <<"compare", "january", "and", "february", "2025", "p&l", "for",
             "building", "180", "and", "building", "140">>,
           <<"tell", "me", "about", "building", "180", "and", "building", "140">>,
           <<"p&l", "for", "building", "180", "and", "building", "140", "for",
             "march", "2025">>,
           <<"compare", "price", "of", "building", "180", "and", "building", "140",
             "january", "2025", "versus", "february", "2025">>,
           <<"what", "is", "the", "price">>,
           <<"p&l", "for", "building", "180", "for", "march">>,
           <<"p&l", "for", "building", "180", "for", "last", "year">> }

TurnMessages == TurnRequests \cup Answers

\* What the classifier's model call returns: nothing, a request type alone,
\* a request type with one comparison period, a request type with a field
\* reported missing.
TurnSuggestions ==
    SessionSuggestions
    \cup { ClassificationResult("asset_details", <<>>, <<>>, << <<"2025">> >>, <<>>, FALSE),
           ClassificationResult("unsupported", <<>>, <<>>, <<>>, <<"period">>, TRUE) }

\* The contexts analyze is called on: a new one, or the slots of a fresh
\* decision with one question pending.
TurnContexts(w) ==
    {QueryContext(<<>>)}
    \cup UNION {{AwaitingContext(d, f) : f \in PendingFieldsFor(d.missing_requirements)} :
                d \in {_classify_new_request(QueryContext(m), llm_result, w) :
                          m \in TurnRequests, llm_result \in TurnSuggestions}}

InitTurn ==
    /\ weak_dataset \in BOOLEAN
    /\ ctx \in TurnContexts(weak_dataset)
    /\ decision = NoDecision
    /\ last = [op |-> "init", path |-> "none", handled |-> FALSE, after_open |-> FALSE]
    /\ dialogue = [step |-> "none", resolved |-> FALSE]
    /\ cls = NoRun

Turn(text, llm_result) ==
    /\ last.op = "init"
    /\ Analyze(text, llm_result)

NextTurn == \E text \in TurnMessages, llm_result \in TurnSuggestions : Turn(text, llm_result)

SpecTurn == InitTurn /\ [][NextTurn]_vars

\* ---------------------------------------------------------------------------
\* The clarification message: ClarificationAgent.run and the P&L node of the
\* workflow, on a request type and the reasons the supervisor reported.
\* A message is the list of the questions it asks, in order.
\* ---------------------------------------------------------------------------

\* The reasons _build_message does not list after "I still need:".
PromptedReasons == {"period", "granularity", "comparison_periods", "property_selection"}

PnlPrompts(reasons) ==
    (IF InSeq("property_selection", reasons) THEN <<"which_single_property">> ELSE <<>>)
    \o (IF InSeq("period", reasons) THEN <<"which_period">> ELSE <<>>)
    \o (IF InSeq("granularity", reasons) THEN <<"tenant_property_or_combined">> ELSE <<>>)
    \o (IF InSeq("comparison_periods", reasons) THEN <<"which_two_periods">> ELSE <<>>)

_build_message(request_type, reasons) ==
    [still_need |-> SelectSeq(reasons, LAMBDA reason : reason \notin PromptedReasons),
     questions |->
         CASE request_type = "price_comparison" -> <<"mention_two_properties">>
           [] request_type = "asset_details" -> <<"which_property">>
           [] request_type = "pnl" ->
                  IF PnlPrompts(reasons) = <<>> THEN <<"specify_time_frame">>
                  ELSE PnlPrompts(reasons)
           [] OTHER -> <<"which_asset_or_metric">>]

\* _pnl_node on a context that needs clarification (lines 170-184).
_pnl_node(reasons) ==
    LET prompts ==
            (IF InSeq("period", reasons) THEN <<"which_period">> ELSE <<>>)
            \o (IF InSeq("granularity", reasons)
                THEN <<"tenant_property_or_combined">> ELSE <<>>)
    IN IF prompts = <<>> THEN <<"share_missing_details">> ELSE prompts

\* The names of the missing requirements the supervisor, the classifier and
\* the parser report.
ReasonNames ==
    {"property", "period", "aggregation_level", "granularity", "comparison_periods",
     "property_selection", "second_property"}

MaxReasons == 2

RECURSIVE ReasonLists(_)
ReasonLists(n) ==
    IF n = 0 THEN {<<>>}
    ELSE LET shorter == ReasonLists(n - 1)
         IN shorter \cup {Append(s, reason) : s \in shorter, reason \in ReasonNames}

ClarificationRun(request_type, reasons, done) ==
    [request_type |-> request_type, reasons |-> reasons, done |-> done,
     message |-> IF done THEN _build_message(request_type, reasons)
                 ELSE [still_need |-> <<>>, questions |-> <<>>],
     node |-> IF done /\ request_type = "pnl" /\ reasons # <<>>
              THEN _pnl_node(reasons) ELSE <<>>]

InitClarify ==
    /\ weak_dataset = FALSE
    /\ ctx = QueryContext(<<>>)
    /\ decision = NoDecision
    /\ last = [op |-> "init", path |-> "none", handled |-> FALSE, after_open |-> FALSE]
    /\ dialogue = [step |-> "none", resolved |-> FALSE]
    /\ cls \in {ClarificationRun(request_type, reasons, FALSE) :
                   request_type \in RequestType,
                   reasons \in {s \in ReasonLists(MaxReasons) : Dedupe(s) = s}}

Clarify ==
    /\ ~cls.done
    /\ cls' = ClarificationRun(cls.request_type, cls.reasons, TRUE)
    /\ UNCHANGED <<ctx, decision, last, dialogue, weak_dataset>>

NextClarify == Clarify

SpecClarify == InitClarify /\ [][NextClarify]_vars

\* ---------------------------------------------------------------------------
\* The shared property catalog (get_property_memory): calls of
\* tools.resolve_properties and of PropertyMemory.search with one text, and
\* the rebuild of the catalog.  embed_query fails or not on each call.
\* ---------------------------------------------------------------------------

MaxCalls == 2

MemoryTexts ==
    TurnRequests
    \cup { <<"p&l", "for", "acme", "building", "180">>,
           <<"acme">>,
           <<"building", "999", "and", "building", "140">> }

MemoryState(memory, text, max_matches, embeddings_ready, op, results, found) ==
    [memory |-> memory, text |-> text, max_matches |-> max_matches,
     embeddings_ready |-> embeddings_ready, op |-> op, results |-> results, found |-> found]

InitMemory ==
    /\ weak_dataset \in BOOLEAN
    /\ ctx = QueryContext(<<>>)
    /\ decision = NoDecision
    /\ last = [op |-> "init", path |-> "none", handled |-> FALSE, after_open |-> FALSE]
    /\ dialogue = [step |-> "none", resolved |-> FALSE]
    /\ cls \in {MemoryState(PropertyMemory(ready), text, max_matches, ready, "init", <<>>, <<>>) :
                   ready \in BOOLEAN, text \in MemoryTexts, max_matches \in 1..2}

ResolveStep(memory) ==
    /\ cls' = [cls EXCEPT !.memory = memory,
                          !.op = "resolve_mentions",
                          !.results = Append(@, MemoryResolution(cls.text, cls.max_matches,
                                                 weak_dataset, memory.use_embeddings))]
    /\ UNCHANGED <<ctx, decision, last, dialogue, weak_dataset>>

\* tools.resolve_properties(text, max_matches), which calls
\* memory.resolve_mentions(text, expected = max_matches * 2).
ResolveProperties(fails) ==
    /\ Len(cls.results) < MaxCalls
    /\ ResolveStep(_blend_with_embeddings(cls.memory, fails))

SearchStep(memory) ==
    /\ cls' = [cls EXCEPT !.memory = memory,
                          !.op = "search",
                          !.found = IF memory.use_embeddings THEN BlendedSearch(cls.text, 5)
                                    ELSE search(cls.text, 5, weak_dataset)]
    /\ UNCHANGED <<ctx, decision, last, dialogue, weak_dataset>>

\* memory.search(text).
Search(fails) == SearchStep(_blend_with_embeddings(cls.memory, fails))

\* get_property_memory.cache_clear() followed by get_property_memory(): the
\* catalog is built again.
Refresh ==
    /\ cls.op # "refresh"
    /\ cls' = [cls EXCEPT !.memory = PropertyMemory(cls.embeddings_ready),
                          !.op = "refresh", !.results = <<>>, !.found = <<>>]
    /\ UNCHANGED <<ctx, decision, last, dialogue, weak_dataset>>

NextMemory ==
    \/ \E fails \in BOOLEAN : ResolveProperties(fails)
    \/ \E fails \in BOOLEAN : Search(fails)
    \/ Refresh

SpecMemory == InitMemory /\ [][NextMemory]_vars

\* ---------------------------------------------------------------------------
\* SupervisorAgent._parse on the module-level supervisor (workflow.py line 26):
\* requests running _parse at the same time, one attribute read or write per
\* step.  _parse holds no lock.
\* ---------------------------------------------------------------------------

NumRequests == 3

ParseRequests == 1..NumRequests

ParseTexts == { <<"p&l", "for", "building", "180">>, <<"what", "is", "the", "price">> }

\* A request's place in _parse and its locals; the two cache fields are the
\* supervisor's.  An unset field is the empty tuple, a set one holds its value.
InitParse ==
    /\ weak_dataset = FALSE
    /\ ctx = QueryContext(<<>>)
    /\ decision = NoDecision
    /\ last = [op |-> "init", path |-> "none", handled |-> FALSE, after_open |-> FALSE]
    /\ dialogue = [step |-> "none", resolved |-> FALSE]
    /\ cls = [_cached_input |-> <<>>, _cached_result |-> <<>>,
              pc |-> [r \in ParseRequests |-> "idle"],
              user_input |-> [r \in ParseRequests |-> <<>>],
              result |-> [r \in ParseRequests |-> <<>>],
              returned |-> [r \in ParseRequests |-> <<>>]]

ParseFrame == UNCHANGED <<ctx, decision, last, dialogue, weak_dataset>>

\* A request calls _parse(text).
BeginParse(r, text) ==
    /\ cls.pc[r] = "idle"
    /\ cls' = [cls EXCEPT !.pc[r] = "check_input", !.user_input[r] = text]
    /\ ParseFrame

\* Line 461, left operand: self._cached_input == user_input.
CheckInput(r) ==
    /\ cls.pc[r] = "check_input"
    /\ cls' = [cls EXCEPT !.pc[r] = IF cls._cached_input = <<cls.user_input[r]>>
                                    THEN "check_result" ELSE "parse"]
    /\ ParseFrame

\* Line 461, right operand: self._cached_result is not None.
CheckResult(r) ==
    /\ cls.pc[r] = "check_result"
    /\ cls' = [cls EXCEPT !.pc[r] = IF cls._cached_result # <<>>
                                    THEN "return_cached" ELSE "parse"]
    /\ ParseFrame

\* Line 462: return self._cached_result.
ReturnCached(r) ==
    /\ cls.pc[r] = "return_cached"
    /\ cls' = [cls EXCEPT !.pc[r] = "done", !.returned[r] = cls._cached_result]
    /\ ParseFrame

\* Line 463: result = self.intent_parser.parse(user_input).
ParseInput(r) ==
    /\ cls.pc[r] = "parse"
    /\ cls' = [cls EXCEPT !.pc[r] = "store_input",
                          !.result[r] = <<_rules_only_parse(cls.user_input[r])>>]
    /\ ParseFrame

\* Line 464: self._cached_input = user_input.
StoreInput(r) ==
    /\ cls.pc[r] = "store_input"
    /\ cls' = [cls EXCEPT !.pc[r] = "store_result", !._cached_input = <<cls.user_input[r]>>]
    /\ ParseFrame

\* Lines 465-466: self._cached_result = result; return result.
StoreResult(r) ==
    /\ cls.pc[r] = "store_result"
    /\ cls' = [cls EXCEPT !.pc[r] = "done", !._cached_result = cls.result[r],
                          !.returned[r] = cls.result[r]]
    /\ ParseFrame

NextParse ==
    \/ \E r \in ParseRequests, text \in ParseTexts : BeginParse(r, text)
    \/ \E r \in ParseRequests : CheckInput(r)
    \/ \E r \in ParseRequests : CheckResult(r)
    \/ \E r \in ParseRequests : ReturnCached(r)
    \/ \E r \in ParseRequests : ParseInput(r)
    \/ \E r \in ParseRequests : StoreInput(r)
    \/ \E r \in ParseRequests : StoreResult(r)

SpecParse == InitParse /\ [][NextParse]_vars


\* ------------------------------------------------------------------------
\* Properties
\* ------------------------------------------------------------------------

Pending(context) == context.awaiting_user_reply /\ context.clarifications # <<>>

\* C1: single-question law.  Starting from a context with at most one
\* pending clarification, after any sequence of analyze calls the context
\* (and the decision returned) holds at most one clarification.
SingleQuestionLaw ==
    Len(ctx.clarifications) <= 1 /\ Len(decision.clarifications) <= 1

\* An answer was accepted and requirements are still missing: the case in
\* which a further question is due.
SingleQuestionWitness ==
    last.path = "follow_up" /\ last.handled /\ decision.missing_requirements # <<>>

\* C2: when analyze handles a fresh request and computes missing
\* requirements, the outcome holds exactly one pending ClarificationItem and
\* awaiting_user_reply is true.
FreshRequestAsksOneQuestion ==
    (last.op = "analyze" /\ last.path = "fresh" /\ decision.missing_requirements # <<>>)
        => /\ Len(decision.clarifications) = 1
           /\ decision.awaiting_user_reply

\* C3: after an accepted follow-up answer, if requirements are still
\* missing the session stays awaiting a reply with exactly one pending
\* clarification.
AcceptedAnswerKeepsAsking ==
    (last.path = "follow_up" /\ last.handled /\ decision.missing_requirements # <<>>)
        => /\ ctx.awaiting_user_reply
           /\ Len(ctx.clarifications) = 1

\* C4: dialogue progress.  A P&L request missing its period, answered in
\* turn with a granularity word, a concrete period and an aggregation
\* level, has by then been given a routable decision: request type pnl,
\* nothing missing, not awaiting a reply.
DialogueProgress ==
    dialogue.step = "aggregation" => dialogue.resolved

\* C5: when a message sent through the workflow ends with the session
\* needing clarification, the next message sent through the workflow is
\* handled by the follow-up path and is not classified afresh.
NextMessageIsFollowUp ==
    (last.op = "chat" /\ last.after_open) => last.path = "follow_up"


\* C6: a call of analyze on a context that awaits a reply and holds a
\* pending clarification takes the follow-up path: the classifier is not
\* run and the decision's request type is the one the context had before
\* the call, whatever the answer says.
FollowUpKeepsRequestType ==
    [][Pending(ctx) => /\ last'.path = "follow_up"
                       /\ cls' = cls
                       /\ decision'.request_type = ctx.request_type
                       /\ ctx'.request_type = ctx.request_type]_vars

\* An answer that a fresh classification would read as an asset question
\* was taken as the answer of a P&L session.
FollowUpKeepsRequestTypeWitness ==
    /\ last.path = "follow_up"
    /\ ctx.user_input = <<"tenant">>
    /\ decision.request_type = "pnl"
    /\ classify(ctx.user_input, NoSuggestion).request_type = "asset_details"

\* The answers the pending field cannot take: blank for any field, no
\* recognised prefix for aggregation_level, neither a period nor a
\* granularity word for period.
CannotInterpret(item, answer) ==
    \/ answer = <<>>
    \/ /\ item.field = "aggregation_level"
       /\ answer[1] \notin TenantPrefixWords \cup PropPrefixWords \cup CombinedPrefixWords
    \/ /\ item.field = "period"
       /\ extract_period_hint(answer).label = <<>>
       /\ answer \notin {<<"year">>, <<"annual">>, <<"yearly">>, <<"quarter">>,
                         <<"quarterly">>, <<"month">>, <<"monthly">>}

\* C7: a blank or uninterpretable follow-up answer is a non-advancing
\* turn: every slot of the context and the pending item are unchanged and
\* awaiting_user_reply stays true.
NonAdvancingTurn ==
    [][(Pending(ctx) /\ CannotInterpret(ctx.clarifications[Len(ctx.clarifications)],
                                        ctx'.user_input))
          => /\ ctx' = [ctx EXCEPT !.user_input = ctx'.user_input]
             /\ ctx'.awaiting_user_reply
             /\ decision'.awaiting_user_reply
             /\ decision'.clarifications = ctx.clarifications
             /\ decision'.needs_clarification]_vars

\* A question met an answer that is not blank and could not be read.
NonAdvancingTurnWitness ==
    /\ last.path = "follow_up"
    /\ ~last.handled
    /\ ctx.user_input = <<"hello">>
    /\ Pending(ctx)


\* What a reply that starts with a recognised prefix stands for.
AggregationOf(answer) ==
    IF answer[1] \in TenantPrefixWords THEN "tenant"
    ELSE IF answer[1] \in PropPrefixWords THEN "property"
    ELSE "combined"

\* A P&L context with a property and a period whose pending question is the
\* aggregation level, and a reply that starts with a recognised prefix.
AggregationReply(context, answer) ==
    /\ Pending(context)
    /\ context.clarifications[Len(context.clarifications)].field = "aggregation_level"
    /\ context.request_type = "pnl"
    /\ context.property_name # <<>>
    /\ _has_period(context)
    /\ answer # <<>>
    /\ answer[1] \in TenantPrefixWords \cup PropPrefixWords \cup CombinedPrefixWords

AggregationSettled(context, answer) ==
    /\ context.aggregation_level = AggregationOf(answer)
    /\ context.clarifications = <<>>
    /\ ~context.awaiting_user_reply
    /\ ~context.needs_clarification

GranularityOf(answer) ==
    IF answer \in {<<"year">>, <<"yearly">>} THEN "year"
    ELSE IF answer = <<"quarter">> THEN "quarter"
    ELSE "month"

BareGranularityNeverRoutes ==
    [][(/\ Pending(ctx)
        /\ ctx.clarifications[Len(ctx.clarifications)].field = "period"
        /\ ctx'.user_input \in GranularityAnswers)
          => /\ ctx'.period_level = GranularityOf(ctx'.user_input)
             /\ ctx'.period = ctx.period /\ ctx'.year = ctx.year
             /\ ctx'.quarter = ctx.quarter /\ ctx'.month = ctx.month
             /\ ctx'.comparison_periods = ctx.comparison_periods
             /\ InSeq("period", decision'.missing_requirements)
             /\ decision'.needs_clarification
             /\ ~Routable(decision')]_vars

\* The reply "quarter" was stored as the granularity of a P&L question that
\* still has no period.
BareGranularityWitness ==
    /\ last.path = "follow_up"
    /\ last.handled
    /\ ctx.user_input = <<"quarter">>
    /\ ctx.period_level = "quarter"
    /\ ctx.period = <<>>
    /\ InSeq("period", decision.missing_requirements)

\* C10: hard-rule precedence.  For a text in which the rules find a P&L
\* keyword, a property or tenant reference and a period (or two comparison
\* periods), classify returns pnl, whatever other keywords match and
\* whatever request type the external model suggests.
HardRulePrecedence ==
    \A hints \in {BaselineHints(cls.input)} :
        (cls.done /\ hints.has_pnl /\ hints.has_property /\ hints.has_period)
            => cls.result.request_type = "pnl"

\* The model suggested a price comparison for a text with a price keyword,
\* and the result is pnl all the same.
HardRuleWitness ==
    /\ cls.done
    /\ cls.suggestion.request_type = "price_comparison"
    /\ HasKeyword(cls.input, "price")
    /\ HasPhrase(cls.input, <<"what", "is">>)
    /\ \E hints \in {BaselineHints(cls.input)} :
           hints.has_pnl /\ hints.has_property /\ hints.has_period
    /\ cls.result.request_type = "pnl"

\* A JSON object one of whose fields has the wrong type: a number where a
\* string is expected (request_type, period), a number or a string where a
\* list is expected (addresses, comparison_periods, missing_fields).
WrongType(payload) ==
    /\ payload.kind = "object"
    /\ \/ payload.request_type = "7"
       \/ payload.addresses.kind \in {"number", "string"}
       \/ payload.period.kind = "number"
       \/ payload.comparison_periods.kind = "string"
       \/ payload.missing_fields.kind = "number"

Malformed(response) ==
    response.kind = "json" /\ (response.payload.kind # "object" \/ WrongType(response.payload))

Degraded(response) == response.kind \in {"disabled", "failed", "not_json"} \/ Malformed(response)

\* C11: when the external model is disabled, its call fails or its response
\* is malformed (not JSON, not an object, or an object with a field of the
\* wrong type), classify raises nothing and returns exactly the result of the
\* rules alone for the same text.
MalformedDegradesToRules ==
    (cls.done /\ Degraded(cls.response))
        => (~cls.raised /\ cls.result = classify(cls.input, NoSuggestion))

\* The part of C11 the code keeps: without a JSON object there is no
\* suggestion, and classify returns the rules-only result.
NoObjectDegradesToRules ==
    (cls.done /\ (cls.response.kind # "json" \/ cls.response.payload.kind # "object"))
        => (~cls.raised /\ cls.result = classify(cls.input, NoSuggestion))

HardRuleApplies(hints, result) ==
    hints.has_pnl /\ hints.has_property
    /\ (hints.has_period \/ Len(result.comparison_periods) = 2)

\* C12: validate-then-merge.  When the suggested request type is not a valid
\* request type and the hard rule does not apply, the final request type of
\* classify is the request type of the rule-based baseline.
InvalidTypeFallsBack ==
    \A baseline \in {_baseline_classification(cls.input)} :
        ( /\ cls.done /\ ~cls.raised
          /\ cls.response.kind = "json"
          /\ cls.response.payload.kind = "object"
          /\ cls.response.payload.request_type \notin _REQUEST_TYPE_VALUES \cup {""}
          /\ ~HardRuleApplies(baseline.hints, cls.result) )
            => cls.result.request_type = baseline.result.request_type

\* A valid suggestion: a JSON object whose fields all have the right type and
\* whose request type is in the closed enumeration.
ValidSuggestion(response) ==
    /\ response.kind = "json"
    /\ response.payload.kind = "object"
    /\ ~WrongType(response.payload)
    /\ response.payload.request_type \in _REQUEST_TYPE_VALUES

\* C13: with a valid suggestion, every address the rules extracted from the
\* text is among the final addresses of classify (the final addresses are the
\* duplicate-free union of the rule-based and the suggested addresses).
RuleAddressesKept ==
    \A baseline \in {_baseline_classification(cls.input)} :
        (cls.done /\ ~cls.raised /\ cls.input # <<>> /\ ValidSuggestion(cls.response))
            => /\ \A i \in 1..Len(baseline.result.addresses) :
                      InSeq(baseline.result.addresses[i], cls.result.addresses)
               /\ cls.result.addresses = Dedupe(cls.result.addresses)

\* C14: comparison validity.  In every decision analyze returns, on the fresh
\* path and on the follow-up path and for every request type, comparison
\* periods that are neither none nor two are listed as the missing
\* requirement 'comparison_periods', and the decision needs clarification.
ComparisonValidity ==
    ( /\ last.op = "analyze"
      /\ decision.comparison_periods # <<>>
      /\ Len(decision.comparison_periods) # 2 )
        => /\ InSeq("comparison_periods", decision.missing_requirements)
           /\ decision.needs_clarification

\* The part of C14 the code keeps: the fresh path, for every request type.
FreshComparisonValidity ==
    ( /\ last.path = "fresh"
      /\ decision.comparison_periods # <<>>
      /\ Len(decision.comparison_periods) # 2 )
        => /\ InSeq("comparison_periods", decision.missing_requirements)
           /\ decision.needs_clarification

\* C15: for a fresh price_comparison request, 'second_property' is missing
\* exactly when fewer than two addresses were resolved, and a decision with
\* two resolved addresses needs no clarification.
PriceComparisonNeedsTwo ==
    (last.path = "fresh" /\ decision.request_type = "price_comparison")
        => /\ InSeq("second_property", decision.missing_requirements)
                <=> Len(decision.addresses) < 2
           /\ Len(decision.addresses) = 2 => ~decision.needs_clarification

\* The explicit (alias or direct) matches of a fresh request, as line 148
\* counts them.
ExplicitCount(user_input, request_type, weak) ==
    Len(SelectSeq(resolve_properties(user_input,
                                     IF request_type = "price_comparison" THEN 4 ELSE 2,
                                     weak),
                  LAMBDA m : m.metadata /\ m.reason = ExplicitReason))

\* C16: ambiguous references are surfaced.  A fresh request with more explicit
\* matches than its request type uses (two for price_comparison, one for the
\* other types) lists 'property_selection' as missing.
AmbiguitySurfaced ==
    ( /\ last.path = "fresh"
      /\ ExplicitCount(ctx.user_input, decision.request_type, weak_dataset)
            > (IF decision.request_type = "price_comparison" THEN 2 ELSE 1) )
        => InSeq("property_selection", decision.missing_requirements)

\* C17: a P&L period comparison (comparison_periods non-empty) that explicitly
\* matches more than one property stays a pnl request, lists
\* 'property_selection' as missing and needs clarification.
PnlComparisonSingleProperty ==
    ( /\ last.path = "fresh"
      /\ cls.result.request_type = "pnl"
      /\ decision.comparison_periods # <<>>
      /\ ExplicitCount(ctx.user_input, "pnl", weak_dataset) > 1 )
        => /\ decision.request_type = "pnl"
           /\ InSeq("property_selection", decision.missing_requirements)
           /\ decision.needs_clarification

\* "Compare January and February 2025 P&L for Building 180 and Building 140":
\* two comparison periods, two explicit matches, and the decision asks which
\* property is meant.
PnlComparisonWitness ==
    /\ last.path = "fresh"
    /\ decision.request_type = "pnl"
    /\ Len(decision.comparison_periods) = 2
    /\ ExplicitCount(ctx.user_input, "pnl", weak_dataset) = 2
    /\ decision.missing_requirements = <<"property_selection">>
    /\ decision.needs_clarification

\* C18: a fresh P&L request whose period is year-level (no quarter, no month),
\* with a known property and no tenant, lists 'aggregation_level' as missing
\* and needs clarification.
YearLevelNeedsAggregation ==
    ( /\ last.path = "fresh"
      /\ decision.request_type = "pnl"
      /\ decision.period_level = "year"
      /\ decision.quarter = <<>> /\ decision.month = <<>>
      /\ decision.property_name # <<>>
      /\ decision.tenant_name = <<>> )
        => /\ InSeq("aggregation_level", decision.missing_requirements)
           /\ decision.needs_clarification

\* "P&L for Building 180 for 2025": a year, a property, no tenant, and the
\* only thing missing is the aggregation level.
YearLevelWitness ==
    /\ last.path = "fresh"
    /\ decision.request_type = "pnl"
    /\ decision.period = <<"2025">>
    /\ decision.period_level = "year"
    /\ decision.property_name = <<"building", "180">>
    /\ decision.tenant_name = <<>>
    /\ decision.comparison_periods = <<>>
    /\ decision.missing_requirements = <<"aggregation_level">>
    /\ decision.needs_clarification

\* The fresh path's rules (lines 207-234) applied to the slot values of a
\* decision, nothing being reported missing beforehand; the addresses of the
\* decision are its matches.
FreshRules(d) ==
    NewRequestMissing(<<>>, d.request_type, d.addresses, d.property_name, d.tenant_name,
                      PeriodInfo(d.period, d.period_level, d.year, d.quarter, d.month),
                      d.comparison_periods, Len(d.addresses), Len(d.addresses))

Members(s) == {s[i] : i \in 1..Len(s)}

\* C19: the missing requirements recomputed after an accepted follow-up
\* answer are those the fresh path's per-type rules give for the same request
\* type and slot values (while no aggregation level has been chosen, a slot
\* the fresh path never has).
FollowUpRulesMatchFresh ==
    ( /\ last.path = "follow_up"
      /\ last.handled
      /\ decision.aggregation_level = None )
        => Members(decision.missing_requirements) = Members(FreshRules(decision))

\* C20: a decision whose request type is general or clarification has no
\* missing requirement and needs no clarification, whatever the parser or the
\* classifier reported missing.
GeneralNeedsNothing ==
    (last.op = "analyze" /\ decision.request_type \in {"general", "clarification"})
        => /\ decision.missing_requirements = <<>>
           /\ ~decision.needs_clarification

\* A decision that carries a resolved period or comparison periods.
PeriodResolved(d) ==
    \/ d.period # <<>>
    \/ d.year # None
    \/ d.quarter # <<>>
    \/ d.month # <<>>
    \/ d.comparison_periods # <<>>

\* C21: a fresh P&L decision lists 'period' as missing exactly when neither a
\* period (absolute or relative) nor comparison periods were resolved; no
\* decision both carries a resolved period and asks for one.
PeriodMissingIffUnresolved ==
    (last.path = "fresh" /\ decision.request_type = "pnl")
        => (InSeq("period", decision.missing_requirements) <=> ~PeriodResolved(decision))

\* C22: the workflow invokes no specialist (P&L, price comparison, asset
\* details) on a context that needs clarification; a specialist runs only on
\* a context without missing requirements.
SpecialistsOnlyWhenRoutable ==
    ( /\ last.op = "chat"
      /\ last.ran \in {"pnl_agent", "price_agent", "asset_agent"} )
        => /\ ~ctx.needs_clarification
           /\ ctx.clarification_reasons = <<>>

\* The part of C22 the code keeps: the P&L node checks needs_clarification.
PnlOnlyWhenRoutable ==
    (last.op = "chat" /\ last.ran = "pnl_agent")
        => /\ ~ctx.needs_clarification
           /\ ctx.clarification_reasons = <<>>

\* C23: when several requirements are missing at once, the clarification of
\* the turn asks exactly one question, from ClarificationAgent.run and from
\* the workflow's P&L node alike.
OneQuestionPerMessage ==
    (cls.done /\ Len(cls.reasons) > 1)
        => /\ Len(cls.message.questions) = 1
           /\ Len(cls.node) <= 1

\* C24: when 'aggregation_level' is the missing requirement of a P&L request,
\* the clarification (of ClarificationAgent.run and of the workflow's P&L
\* node) is the choice between tenant-level, property-level and combined
\* totals.
AggregationAsksChoice ==
    (cls.done /\ cls.request_type = "pnl" /\ cls.reasons = <<"aggregation_level">>)
        => /\ cls.message.questions = <<"tenant_property_or_combined">>
           /\ cls.node = <<"tenant_property_or_combined">>

Distinct(s) == \A i, j \in 1..Len(s) : i # j => s[i] # s[j]

\* C25: no two matches of one resolve_mentions result, and no two matches of
\* one resolve_properties result, have the same address.
NoDuplicateAddresses ==
    \A k \in 1..Len(cls.results) :
        /\ Distinct(cls.results[k].memory_result.matches)
        /\ Distinct([i \in 1..Len(cls.results[k].matches) |-> cls.results[k].matches[i].address])

\* A text naming Building 180 twice (by its tenant and by its address) has
\* been resolved: the later hits on the address were dropped.
DuplicateDroppedWitness ==
    /\ cls.results # <<>>
    /\ HasPhrase(cls.text, <<"acme">>)
    /\ HasPhrase(cls.text, <<"building", "180">>)
    /\ InSeq(<<"building", "180">>, cls.results[1].memory_result.matches)

\* C26: two resolve_mentions calls with the same text on the same catalog
\* return identical ordered matches, with the embeddings enabled or not.
MentionsIdempotent ==
    Len(cls.results) = 2 => cls.results[1].memory_result = cls.results[2].memory_result

\* C27: search and resolve_mentions leave the catalog as it was: its records,
\* its alias index and whether embeddings are blended in.
CatalogReadOnly ==
    [][cls'.op \in {"search", "resolve_mentions"} => cls'.memory = cls.memory]_vars

\* C28: after analyze calls, every resolved address of the decision and of
\* the context is the address of a record of the dataset.
ResolvedAddressesInDataset ==
    last.op = "analyze"
        => /\ \A i \in 1..Len(decision.addresses) : decision.addresses[i] \in DatasetAddresses
           /\ \A i \in 1..Len(ctx.addresses) : ctx.addresses[i] \in DatasetAddresses

\* The fresh path alone keeps to the dataset.
FreshAddressesInDataset ==
    (last.op = "analyze" /\ last.path = "fresh")
        => \A i \in 1..Len(decision.addresses) : decision.addresses[i] \in DatasetAddresses

FlagsAgree(state) == state.awaiting_user_reply <=> (Len(state.clarifications) = 1)

\* C29: from a context whose awaiting_user_reply is true exactly when one
\* clarification is pending, every analyze call leaves a context (and returns
\* a decision) whose awaiting_user_reply is true exactly when the
\* clarifications list holds one item.
DialogueFlagsAgree ==
    /\ FlagsAgree(ctx)
    /\ last.op = "analyze" => FlagsAgree(decision)

\* An answer was accepted: the pending item left the list and the session
\* stopped awaiting.
AnswerAcceptedWitness ==
    /\ last.op = "analyze"
    /\ last.path = "follow_up"
    /\ last.handled
    /\ ~ctx.awaiting_user_reply
    /\ ctx.clarifications = <<>>

\* An answer was refused: the item stays pending and the session awaits.
AnswerRefusedWitness ==
    /\ last.op = "analyze"
    /\ last.path = "follow_up"
    /\ ~last.handled
    /\ ctx.awaiting_user_reply
    /\ Len(ctx.clarifications) = 1

\* C30: under any interleaving of requests sharing the supervisor, _parse
\* returns to each request the parse result of that request's own text.
ParseReturnsOwnResult ==
    \A r \in ParseRequests :
        cls.pc[r] = "done" => cls.returned[r] = <<_rules_only_parse(cls.user_input[r])>>


====
